---- MODULE Spec2Model ----
(***************************************************************************)
(* WaitlistMailer: the waitlist set, its initialization chain and its      *)
(* mutation operations, as a state machine.                                *)
(*                                                                         *)
(* The repository holds two revisions of the class, and both are modelled: *)
(*   rev = "lib"  src/lib/index.ts (1.0.0: synchronous addEmail /          *)
(*                removeEmail / clearWaitlist, fire-and-forget             *)
(*                persistence, initialization chain in the constructor)    *)
(*   rev = "p3"   src/unnamed/part_003 lines 1-713 (1.1.0: async           *)
(*                addEmail / removeEmail / clearWaitlist that await the    *)
(*                backend, initialize() chain)                             *)
(* One step of the model is one run-to-completion piece of JavaScript: the *)
(* synchronous part of a call, or the continuation that runs when a        *)
(* transport / backend promise settles.                                    *)
(* The instance is constructed with the options its storage needs         *)
(* (mongoUri for "db", sqlConfig for "sql"), and the backend may already   *)
(* hold records, valid or not, written by earlier processes.               *)
(***************************************************************************)
EXTENDS Integers, Sequences, FiniteSets, TLC

VARIABLES
    rev,          \* which revision of the class this instance is
    storage,      \* this.storage: "local" | "db" | "sql"
    thrower,      \* a subscriber of onEmailAdded that throws is registered
    companyName,  \* this.companyName, a string
    transporter,  \* this.transporter: "open" from createTransport, "closed"
    now,          \* the clock read by new Date() and by the createdAt default
    createdAt,    \* the createdAt column: the timestamp a stored record carries
    acceptedAt,   \* when addEmail last accepted each address
    query,        \* the most recent read-only query and what it returned
    tally,        \* per address: calls made, true returned, events emitted
    initialized,  \* this.initialized
    initPc,       \* position of the initialization chain
    verifyPc,     \* transporter.verify: "pending", "ready" (onTransporterReady
                  \* was emitted) or "error" (onTransporterError was emitted)
    connected,    \* the backend connection has been established
    initFailure,  \* the initialization steps that failed
    initLog,      \* the other events emitted by the initialization chain, in order
    loaded,       \* hydration copied the backend records into this.waitlist
    waiter,       \* a caller of waitForInitialization: idle | waiting | returned
    waitlist,     \* this.waitlist
    backend,      \* addresses stored in the collection / table
    pending,      \* backend calls in flight, in issue order
    last,         \* the most recently started public call and what it did
    save,         \* the saveWaitlist call in progress
    mail,         \* the send call in progress and what it has done so far
    fresh         \* a second instance constructed later on the same backend

vars == <<rev, storage, thrower, companyName, now, transporter, createdAt, acceptedAt, query, tally, initialized, initPc, verifyPc, connected, initFailure,
          initLog, loaded, waiter, waitlist, backend, pending, last,
          save, mail, fresh>>

config == <<rev, storage, thrower, companyName>>
queries == <<createdAt, acceptedAt, query>>
gate == <<initialized, initPc, verifyPc, connected, initFailure, initLog, loaded>>
io == <<save, mail, fresh>>

(***************************************************************************)
(* Bounds and the address universe.  Strings are sequences of characters.  *)
(***************************************************************************)
MaxPending == 1

\* largest retries argument of sendConfirmationWithRetry
MaxRetries == 2

\* largest retries argument of sendBulkConfirmation
MaxBulkRetries == 1

\* latest timestamp of a record and of a bound of countWaitlistByDate
MaxTime == 2

a1 == <<"a", "@", "x", ".", "c">>
a2 == <<"B", "@", "x", ".", "c">>
noAt == <<"a", "x", ".", "c">>
Addr == {a1, a2, noAt}
NoArg == <<>>

(***************************************************************************)
(* Message texts are sequences of characters in which Token stands for the *)
(* fourteen characters of "[Company Name]".                                *)
(***************************************************************************)
Token == "[Company Name]"
Acme == <<"A">>
Companies == { Acme, <<"A", "$", "$">>, <<"$", "&">> }
DefaultBody == <<"W", Token>>
Bodies == { DefaultBody, <<Token, "x", Token>>, <<"W">> }
FileBody == <<"f">>

\* subjectTemplate(email), for the template the caller passes
subjectTemplate(email) == <<"S">> \o email

\* the text String.prototype.replace inserts for the replacement string str
\* at a match: "$$" inserts "$" and "$&" inserts the matched text
RECURSIVE Replacement(_)
Replacement(str) ==
    IF str = <<>> THEN <<>>
    ELSE IF Len(str) >= 2 /\ str[1] = "$" /\ str[2] = "$"
    THEN <<"$">> \o Replacement(SubSeq(str, 3, Len(str)))
    ELSE IF Len(str) >= 2 /\ str[1] = "$" /\ str[2] = "&"
    THEN <<Token>> \o Replacement(SubSeq(str, 3, Len(str)))
    ELSE <<Head(str)>> \o Replacement(Tail(str))

\* text.replace(/\[Company Name\]/g, str)
RECURSIVE replace(_, _)
replace(text, str) ==
    IF text = <<>> THEN <<>>
    ELSE (IF Head(text) = Token THEN Replacement(str) ELSE <<Head(text)>>)
         \o replace(Tail(text), str)

Revs == {"lib", "p3"}
Storages == {"local", "db", "sql"}

(***************************************************************************)
(* Email syntax as Joi.string().email({tlds: {allow: false}}) and          *)
(* validator.isEmail decide it on this alphabet: exactly one "@", a        *)
(* non-empty local part, a domain of at least two non-empty labels.        *)
(***************************************************************************)
AtPositions(s) == {i \in 1..Len(s) : s[i] = "@"}

DomainOk(d) ==
    /\ Len(d) > 0
    /\ \E i \in 1..Len(d) : d[i] = "."
    /\ d[1] # "."
    /\ d[Len(d)] # "."
    /\ \A i \in 1..(Len(d) - 1) : ~(d[i] = "." /\ d[i + 1] = ".")

validateEmailFormat(email) ==
    /\ Cardinality(AtPositions(email)) = 1
    /\ LET at == CHOOSE i \in AtPositions(email) : TRUE
       IN  /\ at > 1
           /\ DomainOk(SubSeq(email, at + 1, Len(email)))

emailExists(email) == email \in waitlist

\* the well-formed addresses
Valid == {x \in Addr : validateEmailFormat(x)}

(***************************************************************************)
(* Read-only queries.  A date is a point of 0..MaxTime; an optional date   *)
(* argument is the empty set when omitted and {t} when given.              *)
(***************************************************************************)
Times == 0..MaxTime
Dates == {{}} \cup {{t} : t \in Times}

Patterns == { <<>>, <<"a">>, <<"A">>, <<"b">>, <<"@", "X">>, <<"x", ".", "c">>,
              <<"a", "x">>, <<"a", ".", "x">>, <<"z">> }

\* String.prototype.toLowerCase on the letters of the address universe
CasePairs == { <<"a", "A">>, <<"b", "B">>, <<"c", "C">>, <<"x", "X">> }
Lower(c) ==
    IF \E cp \in CasePairs : cp[2] = c
    THEN (CHOOSE cp \in CasePairs : cp[2] = c)[1]
    ELSE c
toLowerCase(str) == [i \in 1..Len(str) |-> Lower(str[i])]

\* String.prototype.includes
includes(str, pattern) ==
    \E i \in 0..(Len(str) - Len(pattern)) : SubSeq(str, i + 1, i + Len(pattern)) = pattern

\* mutant of Matches: the comparison keeps the case
Matches_caseSensitive(email, pattern) == includes(email, pattern)

\* the filter of the Local branch
Matches(email, pattern) == includes(toLowerCase(email), toLowerCase(pattern))

\* new RegExp(pattern, 'i') as a $regex filter: "." stands for any character
RegexMatches(email, pattern) ==
    \E i \in 0..(Len(email) - Len(pattern)) :
        \A k \in 1..Len(pattern) :
            pattern[k] = "." \/ Lower(email[i + k]) = Lower(pattern[k])

\* email LIKE '%pattern%': "_" stands for any character; the comparison
\* ignores case under the collation of mysql and keeps it under postgres
LikeMatches(email, pattern, ignoreCase) ==
    \E i \in 0..(Len(email) - Len(pattern)) :
        \A k \in 1..Len(pattern) :
            \/ pattern[k] = "_"
            \/ IF ignoreCase THEN Lower(email[i + k]) = Lower(pattern[k])
                ELSE email[i + k] = pattern[k]

\* mutant of Between: the bounds are excluded
Between_exclusive(t, startDate, endDate) == startDate < t /\ t < endDate

\* Op.between, and $gte with $lte
Between(t, startDate, endDate) == startDate <= t /\ t <= endDate

\* $gte / Op.gte and $lte / Op.lte, set only for a bound that was given
Gte(t, startDate) == \A d \in startDate : d <= t
Lte(t, endDate) == \A d \in endDate : t <= d

\* WaitlistModel.countDocuments(query)
countDocuments(startDate, endDate) ==
    Cardinality({x \in backend : Gte(createdAt[x], startDate) /\ Lte(createdAt[x], endDate)})

\* WaitlistSequelize.count({ where })
count(startDate, endDate) ==
    Cardinality({x \in backend :
        IF startDate # {} /\ endDate # {}
        THEN \E d \in startDate : \E e \in endDate : Between(createdAt[x], d, e)
        ELSE Gte(createdAt[x], startDate) /\ Lte(createdAt[x], endDate)})

QueryIdle == [op |-> "none", arg |-> NoArg, count |-> 0, found |-> {}]
NoQuery ==
    /\ now = 0
    /\ createdAt = [x \in Addr |-> 0]
    /\ acceptedAt = createdAt
    /\ query = QueryIdle

\* addEmail(email) has run: the address is accepted when it enters the set
Accepted(email) ==
    IF waitlist' # waitlist
    THEN [x \in DOMAIN acceptedAt |-> IF x = email THEN now ELSE acceptedAt[x]]
    ELSE acceptedAt

\* the records of the addresses in written are stored with timestamp t
Stamped(written, t) ==
    [x \in DOMAIN createdAt |-> IF x \in written THEN t ELSE createdAt[x]]

(***************************************************************************)
(* Events and call records.                                                *)
(***************************************************************************)
Ev(name, arg) == [name |-> name, arg |-> arg, cause |-> "none"]

\* handleError: one onError event carrying the context and the cause
handleError(context, cause) == [name |-> "onError", arg |-> context, cause |-> cause]

\* emit(name, arg) runs the subscribers in turn inside the call; one that
\* throws ends the emit, and the exception leaves it
Throws(name) == thrower /\ name = "onEmailAdded"
Emit(name, arg) ==
    IF Throws(name) THEN [name |-> name, arg |-> arg, cause |-> "subscriber threw"]
    ELSE Ev(name, arg)

Count(evs, name) == Cardinality({i \in 1..Len(evs) : evs[i].name = name})

Untag(ps) == [i \in 1..Len(ps) |-> [ps[i] EXCEPT !.tag = FALSE]]

Remove(ps, i) == SubSeq(ps, 1, i - 1) \o SubSeq(ps, i + 1, Len(ps))

(***************************************************************************)
(* The tally of what the callers of addEmail and removeEmail were given,   *)
(* kept while tally.on: calls made, true returned, onEmailAdded /          *)
(* onEmailRemoved emitted, per address.                                    *)
(***************************************************************************)
Tallied == {"addEmail", "removeEmail"}
DoneName(op) == IF op = "addEmail" THEN "onEmailAdded" ELSE "onEmailRemoved"
NoTally ==
    [on |-> FALSE, failed |-> FALSE,
     calls |-> [op \in Tallied |-> [x \in Addr |-> 0]],
     trues |-> [op \in Tallied |-> [x \in Addr |-> 0]],
     events |-> [op \in Tallied |-> [x \in Addr |-> 0]]]

\* the call op(x) whose record is last' has run up to its return or first await
AtCall(op, x) ==
    IF ~tally.on THEN tally
    ELSE [tally EXCEPT !.calls[op][x] = @ + 1,
                       !.trues[op][x] = @ + (IF last'.res = "true" THEN 1 ELSE 0),
                       !.events[op][x] = @ + Count(last'.evs, DoneName(op))]

\* "p3": the awaited backend call of an addEmail or removeEmail resolved
AtSettle(o) ==
    IF ~tally.on \/ o.kind = "deleteAll" THEN tally
    ELSE LET op == IF o.kind = "create" THEN "addEmail" ELSE "removeEmail"
         IN  [tally EXCEPT !.trues[op][o.email] =
                               @ + (IF Throws(DoneName(op)) THEN 0 ELSE 1),
                           !.events[op][o.email] = @ + 1]

Call(op, x, res, evs, persist) ==
    [n |-> 1 - last.n, op |-> op, arg |-> x, ready |-> initialized,
     pre |-> waitlist, res |-> res, evs |-> evs, persist |-> persist]

\* a backend call in flight; a create carries createdAt: new Date()
Op(kind, x) == [kind |-> kind, email |-> x, tag |-> TRUE, at |-> now]

HasBackend == storage # "local"

\* no saveWaitlist call, no send call, no second instance
SaveIdle ==
    [pc |-> "idle", emails |-> {}, quiet |-> TRUE, gone |-> {}, saved |-> <<>>,
     errors |-> 0, res |-> "none", at |-> 0]

\* mailOptions before any was built
NoMessage == [to |-> NoArg, subject |-> <<>>, html |-> <<>>]

MailIdle ==
    [op |-> "none", pc |-> "idle", email |-> NoArg, present |-> FALSE,
     body |-> <<>>, message |-> NoMessage,
     queue |-> <<>>, total |-> 0, retries |-> 0, attempt |-> 0,
     outcomes |-> <<>>, inflight |-> {}, invoked |-> 0, retried |-> <<>>,
     delays |-> 0, sent |-> 0, errors |-> 0, rejected |-> FALSE,
     missed |-> FALSE, count |-> 0, done |-> <<>>, res |-> "none"]

FreshNone == [pc |-> "none", waitlist |-> {}, added |-> NoArg]

(***************************************************************************)
(* Init: the state when the constructor returns.                           *)
(***************************************************************************)
Init ==
    /\ rev \in Revs
    /\ storage \in Storages
    /\ thrower = FALSE
    /\ companyName = Acme
    /\ transporter = "open"
    /\ NoQuery
    /\ tally = NoTally
    /\ initialized = (rev = "lib" /\ storage = "local")
    /\ initPc = IF rev = "p3" THEN "verifying"
                ELSE IF storage = "local" THEN "emitting" ELSE "connecting"
    /\ verifyPc = "pending"
    /\ connected = FALSE
    /\ initFailure = {}
    /\ initLog = <<>>
    /\ loaded = FALSE
    /\ waiter = "idle"
    /\ waitlist = {}
    /\ backend \in (IF storage = "local" THEN {{}} ELSE SUBSET Addr)
    /\ pending = <<>>
    /\ last = [n |-> 0, op |-> "none", arg |-> NoArg, ready |-> FALSE,
               pre |-> {}, res |-> "none", evs |-> <<>>, persist |-> "none"]
    /\ save = SaveIdle
    /\ mail = MailIdle
    /\ fresh = FreshNone

(***************************************************************************)
(* Initialization, revision "lib": transporter.verify and the connection   *)
(* chain are started by the constructor and run independently.             *)
(***************************************************************************)
Resume(w) == IF w = "waiting" THEN "returned" ELSE w

ConnectedEvent == IF storage = "db" THEN "onDbConnected" ELSE "onSqlConnected"
ChainErrorEvent == IF storage = "db" THEN "onDbError" ELSE "onSqlError"
LoadAction_lib == IF storage = "db" THEN "loadWaitlistFromDb" ELSE "loadWaitlistFromSql"
LoadContext_p3 == IF storage = "db" THEN "loadFromMongo" ELSE "loadFromSql"

verifyReady_lib ==
    /\ rev = "lib" /\ verifyPc = "pending"
    /\ verifyPc' = "ready"
    /\ UNCHANGED <<config, now, transporter, queries, tally, io, initialized, initPc, connected, initFailure, initLog, loaded,
                   waiter, waitlist, backend, pending, last>>

verifyError_lib ==
    /\ rev = "lib" /\ verifyPc = "pending"
    /\ verifyPc' = "error"
    /\ initFailure' = initFailure \cup {"verify"}
    /\ UNCHANGED <<config, now, transporter, queries, tally, io, initialized, initPc, connected, initLog, loaded,
                   waiter, waitlist, backend, pending, last>>

\* mongoose.connect(...).then / sqlConnection.authenticate().then
connectResolved_lib ==
    /\ rev = "lib" /\ initPc = "connecting"
    /\ connected' = TRUE
    /\ initLog' = Append(initLog, Ev(ConnectedEvent, NoArg))
    /\ initPc' = IF storage = "db" THEN "loading" ELSE "syncing"
    /\ UNCHANGED <<config, now, transporter, queries, tally, io, initialized, verifyPc, initFailure, loaded,
                   waiter, waitlist, backend, pending, last>>

\* WaitlistSequelize.sync().then
syncResolved_lib ==
    /\ rev = "lib" /\ initPc = "syncing"
    /\ initPc' = "loading"
    /\ UNCHANGED <<config, now, transporter, queries, tally, io, initialized, verifyPc, connected, initFailure, initLog,
                   loaded, waiter, waitlist, backend, pending, last>>

\* loadWaitlistFromDb / loadWaitlistFromSql resolved, then the final .then
loadResolved_lib ==
    /\ rev = "lib" /\ initPc = "loading"
    /\ waitlist' = waitlist \cup backend
    /\ loaded' = TRUE
    /\ initialized' = TRUE
    /\ initLog' = Append(initLog, Ev("onInitialized", NoArg))
    /\ waiter' = Resume(waiter)
    /\ initPc' = "ready"
    /\ UNCHANGED <<config, now, transporter, queries, tally, io, verifyPc, connected, initFailure, backend, pending, last>>

\* connect / authenticate / sync rejected: the chain's .catch
connectRejected_lib ==
    /\ rev = "lib" /\ initPc \in {"connecting", "syncing"}
    /\ initFailure' = initFailure \cup {IF initPc = "connecting" THEN "connect" ELSE "sync"}
    /\ initLog' = Append(initLog, [name |-> ChainErrorEvent, arg |-> NoArg,
                                   cause |-> initPc])
    /\ initPc' = "failed"
    /\ UNCHANGED <<config, now, transporter, queries, tally, io, initialized, verifyPc, connected, loaded,
                   waiter, waitlist, backend, pending, last>>

\* find() / findAll() rejected: handleError, Promise.reject, the chain's .catch
loadRejected_lib ==
    /\ rev = "lib" /\ initPc = "loading"
    /\ initFailure' = initFailure \cup {"load"}
    /\ initLog' = initLog \o <<handleError(LoadAction_lib, "load"),
                               [name |-> ChainErrorEvent, arg |-> NoArg, cause |-> "load"]>>
    /\ initPc' = "failed"
    /\ UNCHANGED <<config, now, transporter, queries, tally, io, initialized, verifyPc, connected, loaded,
                   waiter, waitlist, backend, pending, last>>

\* Local storage: setTimeout(() => this.emit('onInitialized'), 0)
emitInitialized_lib ==
    /\ rev = "lib" /\ initPc = "emitting"
    /\ initLog' = Append(initLog, Ev("onInitialized", NoArg))
    /\ waiter' = Resume(waiter)
    /\ initPc' = "ready"
    /\ UNCHANGED <<config, now, transporter, queries, tally, io, initialized, verifyPc, connected, initFailure, loaded,
                   waitlist, backend, pending, last>>

(***************************************************************************)
(* Initialization, revision "p3": initialize() awaits verifyTransporter,   *)
(* initializeStorage and loadInitialData in turn.                          *)
(***************************************************************************)
verifyResolved_p3 ==
    /\ rev = "p3" /\ initPc = "verifying"
    /\ verifyPc' = "ready"
    /\ IF storage = "local"
       THEN /\ initialized' = TRUE
            /\ initLog' = Append(initLog, Ev("onInitialized", NoArg))
            /\ waiter' = Resume(waiter)
            /\ initPc' = "ready"
       ELSE /\ initPc' = "connecting"
            /\ UNCHANGED <<initialized, initLog, waiter>>
    /\ UNCHANGED <<config, now, transporter, queries, tally, io, connected, initFailure, loaded, waitlist, backend,
                   pending, last>>

verifyRejected_p3 ==
    /\ rev = "p3" /\ initPc = "verifying"
    /\ verifyPc' = "error"
    /\ initFailure' = initFailure \cup {"verify"}
    /\ initLog' = Append(initLog, handleError("initialize", "verify"))
    /\ initPc' = "failed"
    /\ UNCHANGED <<config, now, transporter, queries, tally, io, initialized, connected, loaded, waiter, waitlist,
                   backend, pending, last>>

\* mongoose.connect resolved / sqlConnection.authenticate resolved
connectResolved_p3 ==
    /\ rev = "p3" /\ initPc = "connecting"
    /\ connected' = TRUE
    /\ IF storage = "db"
       THEN /\ initLog' = Append(initLog, Ev("onDbConnected", NoArg))
            /\ initPc' = "loading"
       ELSE /\ initPc' = "syncing"
            /\ UNCHANGED initLog
    /\ UNCHANGED <<config, now, transporter, queries, tally, io, initialized, verifyPc, initFailure, loaded, waiter,
                   waitlist, backend, pending, last>>

\* WaitlistSequelize.sync resolved, initializeSequelize returns
syncResolved_p3 ==
    /\ rev = "p3" /\ initPc = "syncing"
    /\ initLog' = Append(initLog, Ev("onSqlConnected", NoArg))
    /\ initPc' = "loading"
    /\ UNCHANGED <<config, now, transporter, queries, tally, io, initialized, verifyPc, connected, initFailure, loaded,
                   waiter, waitlist, backend, pending, last>>

\* initializeStorage rejected: the constructor's .catch calls handleError
connectRejected_p3 ==
    /\ rev = "p3" /\ initPc \in {"connecting", "syncing"}
    /\ initFailure' = initFailure \cup {IF initPc = "connecting" THEN "connect" ELSE "sync"}
    /\ initLog' = Append(initLog, handleError("initialize", initPc))
    /\ initPc' = "failed"
    /\ UNCHANGED <<config, now, transporter, queries, tally, io, initialized, verifyPc, connected, loaded, waiter,
                   waitlist, backend, pending, last>>

\* loadFromMongo / loadFromSql: find resolved, then initialized = true
loadResolved_p3 ==
    /\ rev = "p3" /\ initPc = "loading"
    /\ waitlist' = waitlist \cup backend
    /\ loaded' = TRUE
    /\ initialized' = TRUE
    /\ initLog' = Append(initLog, Ev("onInitialized", NoArg))
    /\ waiter' = Resume(waiter)
    /\ initPc' = "ready"
    /\ UNCHANGED <<config, now, transporter, queries, tally, io, verifyPc, connected, initFailure, backend, pending, last>>

\* loadFromMongo / loadFromSql: find rejected, the catch swallows the error
\* and initialize() goes on to set initialized = true
loadRejected_p3 ==
    /\ rev = "p3" /\ initPc = "loading"
    /\ initFailure' = initFailure \cup {"load"}
    /\ initialized' = TRUE
    /\ initLog' = initLog \o <<handleError(LoadContext_p3, "load"),
                               Ev("onInitialized", NoArg)>>
    /\ waiter' = Resume(waiter)
    /\ initPc' = "ready"
    /\ UNCHANGED <<config, now, transporter, queries, tally, io, verifyPc, connected, loaded, waitlist, backend,
                   pending, last>>

(***************************************************************************)
(* waitForInitialization: returns at once when initialized, otherwise      *)
(* registers a once('onInitialized') listener and stays suspended.         *)
(***************************************************************************)
waitForInitialization ==
    /\ waiter # "waiting"
    /\ waiter' = IF initialized THEN "returned" ELSE "waiting"
    /\ UNCHANGED <<config, now, transporter, queries, tally, io, gate, waitlist, backend, pending, last>>

(***************************************************************************)
(* Public mutation operations, revision "lib": synchronous; the backend    *)
(* call is issued and not awaited.                                         *)
(***************************************************************************)
Room == Len(pending) < MaxPending

Issue(kind, x) == Append(Untag(pending), Op(kind, x))

\* mutant of addEmail_lib: the duplicate check comes before the validation
addEmail_lib_dupFirst(email) ==
    /\ rev = "lib"
    /\ IF emailExists(email)
       THEN /\ last' = Call("addEmail", email, "false",
                            <<Ev("onDuplicateEmail", email)>>, "none")
            /\ pending' = Untag(pending)
            /\ UNCHANGED waitlist
       ELSE IF ~validateEmailFormat(email)
       THEN /\ last' = Call("addEmail", email, "false",
                            <<Ev("onValidationError", email)>>, "none")
            /\ pending' = Untag(pending)
            /\ UNCHANGED waitlist
       ELSE /\ HasBackend => Room
            /\ waitlist' = waitlist \cup {email}
            /\ last' = Call("addEmail", email, "true", <<Ev("onEmailAdded", email)>>,
                            IF HasBackend THEN "inflight" ELSE "none")
            /\ pending' = IF HasBackend THEN Issue("create", email) ELSE Untag(pending)
    /\ acceptedAt' = Accepted(email)
    /\ UNCHANGED <<config, now, transporter, createdAt, query, tally, io, gate, waiter, backend>>

addEmail_lib(email) ==
    /\ rev = "lib"
    /\ IF ~validateEmailFormat(email)
       THEN /\ last' = Call("addEmail", email, "false",
                            <<Ev("onValidationError", email)>>, "none")
            /\ pending' = Untag(pending)
            /\ UNCHANGED waitlist
       ELSE IF emailExists(email)
       THEN /\ last' = Call("addEmail", email, "false",
                            <<Ev("onDuplicateEmail", email)>>, "none")
            /\ pending' = Untag(pending)
            /\ UNCHANGED waitlist
       ELSE IF Throws("onEmailAdded")
       THEN /\ waitlist' = waitlist \cup {email}
            /\ last' = Call("addEmail", email, "throw",
                            <<Emit("onEmailAdded", email)>>, "none")
            /\ pending' = Untag(pending)
       ELSE /\ HasBackend => Room
            /\ waitlist' = waitlist \cup {email}
            /\ last' = Call("addEmail", email, "true", <<Emit("onEmailAdded", email)>>,
                            IF HasBackend THEN "inflight" ELSE "none")
            /\ pending' = IF HasBackend THEN Issue("create", email) ELSE Untag(pending)
    /\ tally' = AtCall("addEmail", email)
    /\ acceptedAt' = Accepted(email)
    /\ UNCHANGED <<config, now, transporter, createdAt, query, io, gate, waiter, backend>>

\* mutant of removeEmail_lib: an absent address is reported as removed
removeEmail_lib_noCheck(email) ==
    /\ rev = "lib"
    /\ HasBackend => Room
    /\ waitlist' = waitlist \ {email}
    /\ last' = Call("removeEmail", email, "true", <<Ev("onEmailRemoved", email)>>,
                    IF HasBackend THEN "inflight" ELSE "none")
    /\ pending' = IF HasBackend THEN Issue("deleteOne", email) ELSE Untag(pending)
    /\ UNCHANGED <<config, now, transporter, queries, tally, io, gate, waiter, backend>>

removeEmail_lib(email) ==
    /\ rev = "lib"
    /\ IF email \notin waitlist
       THEN /\ last' = Call("removeEmail", email, "false", <<>>, "none")
            /\ pending' = Untag(pending)
            /\ UNCHANGED waitlist
       ELSE /\ HasBackend => Room
            /\ waitlist' = waitlist \ {email}
            /\ last' = Call("removeEmail", email, "true", <<Ev("onEmailRemoved", email)>>,
                            IF HasBackend THEN "inflight" ELSE "none")
            /\ pending' = IF HasBackend THEN Issue("deleteOne", email) ELSE Untag(pending)
    /\ tally' = AtCall("removeEmail", email)
    /\ UNCHANGED <<config, now, transporter, queries, io, gate, waiter, backend>>

clearWaitlist_lib ==
    /\ rev = "lib"
    /\ HasBackend => Room
    /\ waitlist' = {}
    /\ last' = Call("clearWaitlist", NoArg, "void", <<Ev("onWaitlistCleared", NoArg)>>,
                    IF HasBackend THEN "inflight" ELSE "none")
    /\ pending' = IF HasBackend THEN Issue("deleteAll", NoArg) ELSE Untag(pending)
    /\ UNCHANGED <<config, now, transporter, queries, tally, io, gate, waiter, backend>>

(***************************************************************************)
(* Public mutation operations, revision "p3": async; the call awaits the   *)
(* backend (for Local, an already settled promise) before it emits and     *)
(* returns.                                                                *)
(***************************************************************************)
\* mutant of addEmail_p3: the insertion is left for after the await
addEmail_p3_insertLater(email) ==
    /\ rev = "p3"
    /\ IF ~initialized
       THEN /\ last' = Call("addEmail", email, "false",
                            <<handleError("addEmail", "Not initialized")>>, "none")
            /\ pending' = Untag(pending)
            /\ UNCHANGED waitlist
       ELSE IF ~validateEmailFormat(email)
       THEN /\ last' = Call("addEmail", email, "false",
                            <<Ev("onValidationError", NoArg)>>, "none")
            /\ pending' = Untag(pending)
            /\ UNCHANGED waitlist
       ELSE IF email \in waitlist
       THEN /\ last' = Call("addEmail", email, "false",
                            <<Ev("onDuplicateEmail", email)>>, "none")
            /\ pending' = Untag(pending)
            /\ UNCHANGED waitlist
       ELSE /\ Room
            /\ UNCHANGED waitlist
            /\ last' = Call("addEmail", email, "pending", <<>>, "inflight")
            /\ pending' = Issue("create", email)
    /\ tally' = AtCall("addEmail", email)
    /\ acceptedAt' = Accepted(email)
    /\ UNCHANGED <<config, now, transporter, createdAt, query, io, gate, waiter, backend>>

addEmail_p3(email) ==
    /\ rev = "p3"
    /\ IF ~initialized
       THEN /\ last' = Call("addEmail", email, "false",
                            <<handleError("addEmail", "Not initialized")>>, "none")
            /\ pending' = Untag(pending)
            /\ UNCHANGED waitlist
       ELSE IF ~validateEmailFormat(email)
       THEN /\ last' = Call("addEmail", email, "false",
                            <<Ev("onValidationError", NoArg)>>, "none")
            /\ pending' = Untag(pending)
            /\ UNCHANGED waitlist
       ELSE IF email \in waitlist
       THEN /\ last' = Call("addEmail", email, "false",
                            <<Ev("onDuplicateEmail", email)>>, "none")
            /\ pending' = Untag(pending)
            /\ UNCHANGED waitlist
       ELSE /\ Room
            /\ waitlist' = waitlist \cup {email}
            /\ last' = Call("addEmail", email, "pending", <<>>, "inflight")
            /\ pending' = Issue("create", email)
    /\ tally' = AtCall("addEmail", email)
    /\ acceptedAt' = Accepted(email)
    /\ UNCHANGED <<config, now, transporter, createdAt, query, io, gate, waiter, backend>>

removeEmail_p3(email) ==
    /\ rev = "p3"
    /\ IF ~initialized \/ email \notin waitlist
       THEN /\ last' = Call("removeEmail", email, "false", <<>>, "none")
            /\ pending' = Untag(pending)
            /\ UNCHANGED waitlist
       ELSE /\ Room
            /\ waitlist' = waitlist \ {email}
            /\ last' = Call("removeEmail", email, "pending", <<>>, "inflight")
            /\ pending' = Issue("deleteOne", email)
    /\ tally' = AtCall("removeEmail", email)
    /\ UNCHANGED <<config, now, transporter, queries, io, gate, waiter, backend>>

clearWaitlist_p3 ==
    /\ rev = "p3"
    /\ waitlist' = {}
    /\ IF HasBackend
       THEN /\ Room
            /\ last' = Call("clearWaitlist", NoArg, "pending", <<>>, "inflight")
            /\ pending' = Issue("deleteAll", NoArg)
       ELSE /\ last' = Call("clearWaitlist", NoArg, "void",
                            <<Ev("onWaitlistCleared", NoArg)>>, "none")
            /\ pending' = Untag(pending)
    /\ UNCHANGED <<config, now, transporter, queries, tally, io, gate, waiter, backend>>

(***************************************************************************)
(* Backend calls in flight settle in any order.                            *)
(***************************************************************************)
ApplyOp(op, stored) ==
    IF ~HasBackend THEN stored
    ELSE IF op.kind = "create" THEN stored \cup {op.email}
    ELSE IF op.kind = "deleteOne" THEN stored \ {op.email}
    ELSE {}

\* email carries a unique index: a create of a stored address is rejected;
\* a call issued before the connection is up is held until it is
CanResolve(op) ==
    \/ ~HasBackend
    \/ connected /\ (op.kind = "create" => op.email \notin backend)

\* the action name handed to handleError by the .catch of the call
CatchAction_lib(op) ==
    IF op.kind = "create" THEN (IF storage = "db" THEN "addEmailDb" ELSE "addEmailSql")
    ELSE IF op.kind = "deleteOne"
    THEN (IF storage = "db" THEN "removeEmailDb" ELSE "removeEmailSql")
    ELSE (IF storage = "db" THEN "clearWaitlistDb" ELSE "clearWaitlistSql")

persistResolved_lib(i) ==
    /\ rev = "lib"
    /\ CanResolve(pending[i])
    /\ backend' = ApplyOp(pending[i], backend)
    /\ pending' = Remove(pending, i)
    /\ last' = IF pending[i].tag THEN [last EXCEPT !.persist = "ok"] ELSE last
    /\ createdAt' = IF HasBackend /\ pending[i].kind = "create"
                    THEN Stamped({pending[i].email}, pending[i].at)
                    ELSE createdAt
    /\ UNCHANGED <<config, now, transporter, acceptedAt, query, tally, io, gate, waiter, waitlist>>

\* mutant of persistRejected_lib: the catch undoes the in-memory change
persistRejected_lib_rollback(i) ==
    /\ rev = "lib"
    /\ pending' = Remove(pending, i)
    /\ waitlist' = IF pending[i].kind = "create" THEN waitlist \ {pending[i].email}
                   ELSE IF pending[i].kind = "deleteOne"
                   THEN waitlist \cup {pending[i].email}
                   ELSE waitlist
    /\ last' = IF pending[i].tag
               THEN [last EXCEPT !.persist = "failed",
                                 !.evs = Append(@, handleError(CatchAction_lib(pending[i]),
                                                               pending[i].kind))]
               ELSE last
    /\ UNCHANGED <<config, now, transporter, queries, tally, io, gate, waiter, backend>>

persistRejected_lib(i) ==
    /\ rev = "lib"
    /\ pending' = Remove(pending, i)
    /\ last' = IF pending[i].tag
               THEN [last EXCEPT !.persist = "failed",
                                 !.evs = Append(@, handleError(CatchAction_lib(pending[i]),
                                                               pending[i].kind))]
               ELSE last
    /\ UNCHANGED <<config, now, transporter, queries, tally, io, gate, waiter, waitlist, backend>>

\* the event the call emits after its await, and the value it returns
DoneEvent_p3(op) ==
    IF op.kind = "create" THEN Emit("onEmailAdded", op.email)
    ELSE IF op.kind = "deleteOne" THEN Ev("onEmailRemoved", op.email)
    ELSE Ev("onWaitlistCleared", NoArg)

persistResolved_p3(i) ==
    /\ rev = "p3"
    /\ CanResolve(pending[i])
    /\ backend' = ApplyOp(pending[i], backend)
    /\ pending' = Remove(pending, i)
    /\ last' = IF pending[i].tag
               THEN [last EXCEPT !.persist = "ok",
                                 !.evs = Append(@, DoneEvent_p3(pending[i])),
                                 !.res = IF Throws(DoneEvent_p3(pending[i]).name)
                                         THEN "throw"
                                         ELSE IF pending[i].kind = "deleteAll"
                                         THEN "void" ELSE "true"]
               ELSE last
    /\ tally' = AtSettle(pending[i])
    /\ createdAt' = IF HasBackend /\ pending[i].kind = "create"
                    THEN Stamped({pending[i].email}, pending[i].at)
                    ELSE createdAt
    /\ UNCHANGED <<config, now, transporter, acceptedAt, query, io, gate, waiter, waitlist>>

\* persistEmail / removePersistedEmail catch, report and rethrow;
\* clearWaitlist has no catch: the rejection goes to the caller unreported
persistRejected_p3(i) ==
    /\ rev = "p3"
    /\ HasBackend
    /\ pending' = Remove(pending, i)
    /\ last' = IF pending[i].tag
               THEN [last EXCEPT !.persist = "failed",
                                 !.evs = IF pending[i].kind = "create"
                                         THEN Append(@, handleError("persistEmail", "create"))
                                         ELSE IF pending[i].kind = "deleteOne"
                                         THEN Append(@, handleError("removePersistedEmail",
                                                                    "deleteOne"))
                                         ELSE @,
                                 !.res = "throw"]
               ELSE last
    /\ tally' = IF tally.on THEN [tally EXCEPT !.failed = TRUE] ELSE tally
    /\ UNCHANGED <<config, now, transporter, queries, io, gate, waiter, waitlist, backend>>

\* time passes
tick ==
    /\ now < MaxTime
    /\ now' = now + 1
    /\ UNCHANGED <<config, transporter, queries, tally, io, gate, waiter, waitlist,
                   backend, pending, last>>

(***************************************************************************)
(* The specification.                                                      *)
(***************************************************************************)
Next ==
    \/ verifyReady_lib
    \/ verifyError_lib
    \/ connectResolved_lib
    \/ syncResolved_lib
    \/ loadResolved_lib
    \/ connectRejected_lib
    \/ loadRejected_lib
    \/ emitInitialized_lib
    \/ verifyResolved_p3
    \/ verifyRejected_p3
    \/ connectResolved_p3
    \/ syncResolved_p3
    \/ connectRejected_p3
    \/ loadResolved_p3
    \/ loadRejected_p3
    \/ waitForInitialization
    \/ \E email \in Addr : addEmail_lib(email)
    \/ \E email \in Addr : removeEmail_lib(email)
    \/ clearWaitlist_lib
    \/ \E email \in Addr : addEmail_p3(email)
    \/ \E email \in Addr : removeEmail_p3(email)
    \/ clearWaitlist_p3
    \/ \E i \in 1..Len(pending) : persistResolved_lib(i)
    \/ \E i \in 1..Len(pending) : persistRejected_lib(i)
    \/ \E i \in 1..Len(pending) : persistResolved_p3(i)
    \/ \E i \in 1..Len(pending) : persistRejected_p3(i)

Spec == Init /\ [][Next]_vars

(***************************************************************************)
(* saveWaitlist: delete every record, then insert the in-memory set.       *)
(* Document: deleteMany, then insertMany, two awaited calls.  Relational:  *)
(* destroy and bulkCreate inside one transaction, applied at its commit.   *)
(* Neither revision reads this.initialized.                                *)
(***************************************************************************)
SaveStart ==
    [pc |-> IF storage = "db" THEN "deleting" ELSE "transaction",
     emails |-> waitlist, quiet |-> (pending = <<>>), gone |-> {}, saved |-> <<>>,
     errors |-> 0, res |-> "none", at |-> 0]

\* the save in progress is still the most recent public call
SaveTracked == last.op = "saveWaitlist"

SaveReturn(res, evs, persist) ==
    IF SaveTracked
    THEN [last EXCEPT !.res = res, !.evs = @ \o evs, !.persist = persist]
    ELSE last

SaveEmit(evs) == IF SaveTracked THEN [last EXCEPT !.evs = @ \o evs] ELSE last

saveWaitlist_lib ==
    /\ rev = "lib" /\ save.pc = "idle"
    /\ IF storage = "local"
       THEN /\ last' = Call("saveWaitlist", NoArg, "true", <<>>, "none")
            /\ UNCHANGED save
       ELSE /\ last' = Call("saveWaitlist", NoArg, "pending", <<>>, "inflight")
            /\ save' = SaveStart
    /\ pending' = Untag(pending)
    /\ UNCHANGED <<config, now, transporter, queries, tally, gate, waiter, waitlist, backend, mail, fresh>>

saveWaitlist_p3 ==
    /\ rev = "p3" /\ save.pc = "idle"
    /\ IF storage = "local"
       THEN /\ last' = Call("saveWaitlist", NoArg, "true", <<>>, "none")
            /\ UNCHANGED save
       ELSE /\ last' = Call("saveWaitlist", NoArg, "pending", <<>>, "inflight")
            /\ save' = SaveStart
    /\ pending' = Untag(pending)
    /\ UNCHANGED <<config, now, transporter, queries, tally, gate, waiter, waitlist, backend, mail, fresh>>

\* await WaitlistModel.deleteMany({}) resolved
deleteManyResolved ==
    /\ save.pc = "deleting" /\ connected
    /\ backend' = {}
    /\ IF save.emails = {}
       THEN /\ save' = [save EXCEPT !.pc = "idle", !.res = "true",
                                     !.saved = Append(@, save.emails)]
            /\ last' = SaveReturn("true", <<Ev("onWaitlistSaved", save.emails)>>, "ok")
       ELSE /\ save' = [save EXCEPT !.pc = "inserting", !.at = now]
            /\ UNCHANGED last
    /\ UNCHANGED <<config, now, transporter, queries, tally, gate, waiter, waitlist, pending, mail, fresh>>

\* mutant of insertManyResolved: nothing is written
insertManyResolved_none ==
    /\ save.pc = "inserting" /\ connected
    /\ save.emails \cap backend = {}
    /\ backend' = backend
    /\ save' = [save EXCEPT !.pc = "idle", !.res = "true",
                             !.saved = Append(@, save.emails)]
    /\ last' = SaveReturn("true", <<Ev("onWaitlistSaved", save.emails)>>, "ok")
    /\ UNCHANGED <<config, now, transporter, queries, tally, gate, waiter, waitlist, pending, mail, fresh>>

\* await WaitlistModel.insertMany(...) resolved: no address was stored already
insertManyResolved ==
    /\ save.pc = "inserting" /\ connected
    /\ save.emails \cap backend = {}
    /\ backend' = backend \cup save.emails
    /\ save' = [save EXCEPT !.pc = "idle", !.res = "true",
                             !.saved = Append(@, save.emails)]
    /\ last' = SaveReturn("true", <<Ev("onWaitlistSaved", save.emails)>>, "ok")
    /\ createdAt' = Stamped(save.emails, save.at)
    /\ UNCHANGED <<config, now, transporter, acceptedAt, query, tally, gate, waiter, waitlist, pending, mail, fresh>>

\* deleteMany or insertMany rejected: a rejected insertMany may have written
\* some of its documents.  The catch calls handleError and returns false.
saveRejected ==
    /\ save.pc \in {"deleting", "inserting"}
    /\ IF save.pc = "inserting"
       THEN \E written \in SUBSET (save.emails \ backend) :
                /\ written # save.emails
                /\ backend' = backend \cup written
                /\ createdAt' = Stamped(written, save.at)
       ELSE UNCHANGED <<backend, createdAt>>
    /\ save' = [save EXCEPT !.pc = "idle", !.res = "false", !.errors = @ + 1]
    /\ last' = SaveReturn("false", <<handleError("saveWaitlist", save.pc)>>, "failed")
    /\ UNCHANGED <<config, now, transporter, acceptedAt, query, tally, gate, waiter, waitlist, pending, mail, fresh>>

\* the transaction callback has run destroy and bulkCreate; in "lib" it
\* emits onWaitlistSaved before the transaction commits
transactionBody ==
    /\ save.pc = "transaction" /\ connected
    /\ save' = [save EXCEPT !.pc = "committing", !.gone = backend, !.at = now,
                             !.saved = IF rev = "lib" THEN Append(@, save.emails) ELSE @]
    /\ last' = IF rev = "lib"
               THEN SaveEmit(<<Ev("onWaitlistSaved", save.emails)>>)
               ELSE last
    /\ UNCHANGED <<config, now, transporter, queries, tally, gate, waiter, waitlist, backend, pending, mail, fresh>>

\* commit: the rows destroy saw are gone, the rows of bulkCreate are in;
\* a row another call stored in the meantime and bulkCreate also wrote
\* violates the unique index, so the commit can only be rejected
transactionCommitted ==
    /\ save.pc = "committing" /\ connected
    /\ (backend \ save.gone) \cap save.emails = {}
    /\ backend' = (backend \ save.gone) \cup save.emails
    /\ save' = [save EXCEPT !.pc = "idle", !.res = "true",
                             !.saved = IF rev = "lib" THEN @ ELSE Append(@, save.emails)]
    /\ last' = IF rev = "lib"
               THEN SaveReturn("true", <<>>, "ok")
               ELSE SaveReturn("true", <<Ev("onWaitlistSaved", save.emails)>>, "ok")
    /\ createdAt' = Stamped(save.emails, save.at)
    /\ UNCHANGED <<config, now, transporter, acceptedAt, query, tally, gate, waiter, waitlist, pending, mail, fresh>>

\* mutant of transactionRejected: the destroy is not rolled back
transactionRejected_emptied ==
    /\ save.pc \in {"transaction", "committing"}
    /\ backend' = {}
    /\ save' = [save EXCEPT !.pc = "idle", !.res = "false", !.errors = @ + 1]
    /\ last' = SaveReturn("false", <<handleError("saveWaitlist", save.pc)>>, "failed")
    /\ UNCHANGED <<config, now, transporter, queries, tally, gate, waiter, waitlist, pending, mail, fresh>>

\* the transaction is rolled back: the backend keeps what it had
transactionRejected ==
    /\ save.pc \in {"transaction", "committing"}
    /\ save' = [save EXCEPT !.pc = "idle", !.res = "false", !.errors = @ + 1]
    /\ last' = SaveReturn("false", <<handleError("saveWaitlist", save.pc)>>, "failed")
    /\ UNCHANGED <<config, now, transporter, queries, tally, gate, waiter, waitlist, backend, pending, mail, fresh>>

(***************************************************************************)
(* A Ready instance: initialization has succeeded and the set has been     *)
(* hydrated from the backend.                                              *)
(***************************************************************************)
ReadyLog ==
    IF storage = "local" THEN <<Ev("onInitialized", NoArg)>>
    ELSE <<Ev(ConnectedEvent, NoArg), Ev("onInitialized", NoArg)>>

ReadyState ==
    /\ rev \in Revs
    /\ storage \in Storages
    /\ transporter = "open"
    /\ NoQuery
    /\ tally = NoTally
    /\ initialized = TRUE
    /\ initPc = "ready"
    /\ verifyPc = "ready"
    /\ connected = HasBackend
    /\ initFailure = {}
    /\ initLog = ReadyLog
    /\ loaded = HasBackend
    /\ waiter = "idle"
    /\ backend \in (IF storage = "local" THEN {{}} ELSE SUBSET Valid)
    /\ waitlist = backend
    /\ pending = <<>>
    /\ last = [n |-> 0, op |-> "none", arg |-> NoArg, ready |-> FALSE,
               pre |-> {}, res |-> "none", evs |-> <<>>, persist |-> "none"]
    /\ save = SaveIdle
    /\ mail = MailIdle
    /\ fresh = FreshNone

ReadyInit == ReadyState /\ thrower = FALSE /\ companyName = Acme

Mutations ==
    \/ \E email \in Valid : addEmail_lib(email)
    \/ \E email \in Valid : removeEmail_lib(email)
    \/ clearWaitlist_lib
    \/ \E email \in Valid : addEmail_p3(email)
    \/ \E email \in Valid : removeEmail_p3(email)
    \/ clearWaitlist_p3

SaveSteps ==
    \/ saveWaitlist_lib
    \/ saveWaitlist_p3
    \/ deleteManyResolved
    \/ insertManyResolved
    \/ transactionBody
    \/ transactionCommitted

\* mutations and saves whose backend calls all complete without error
NextConverge ==
    \/ Mutations
    \/ SaveSteps
    \/ \E i \in 1..Len(pending) : persistResolved_lib(i)
    \/ \E i \in 1..Len(pending) : persistResolved_p3(i)

SpecConverge == ReadyInit /\ [][NextConverge]_vars

\* the same with backend calls that may fail
NextSave ==
    \/ NextConverge
    \/ saveRejected
    \/ transactionRejected
    \/ \E i \in 1..Len(pending) : persistRejected_lib(i)
    \/ \E i \in 1..Len(pending) : persistRejected_p3(i)

SpecSave == ReadyInit /\ [][NextSave]_vars

(***************************************************************************)
(* A second instance constructed on the same backend after an addEmail of  *)
(* the first has returned true.  Its chain connects and reads every record *)
(* into its own set; the first instance makes no further call, but its     *)
(* backend calls in flight still complete.                                 *)
(***************************************************************************)
freshConstruct ==
    /\ fresh.pc = "none"
    /\ last.op = "addEmail" /\ last.res = "true"
    /\ fresh' = [pc |-> "loading", waitlist |-> {}, added |-> last.arg]
    /\ UNCHANGED <<config, now, transporter, queries, tally, gate, waiter, waitlist, backend, pending, last, save, mail>>

\* find() / findAll() resolved: the set is what the backend holds now
freshLoaded ==
    /\ fresh.pc = "loading"
    /\ fresh' = [fresh EXCEPT !.pc = "ready", !.waitlist = backend]
    /\ UNCHANGED <<config, now, transporter, queries, tally, gate, waiter, waitlist, backend, pending, last, save, mail>>

\* "lib": a rejected chain step leaves initialized false for good
freshRejected_lib ==
    /\ rev = "lib" /\ fresh.pc = "loading"
    /\ fresh' = [fresh EXCEPT !.pc = "failed"]
    /\ UNCHANGED <<config, now, transporter, queries, tally, gate, waiter, waitlist, backend, pending, last, save, mail>>

\* "p3": loadFromMongo / loadFromSql catch the error, the chain goes on and
\* sets initialized with an empty set
freshLoadRejected_p3 ==
    /\ rev = "p3" /\ fresh.pc = "loading"
    /\ fresh' = [fresh EXCEPT !.pc = "ready", !.waitlist = {}]
    /\ UNCHANGED <<config, now, transporter, queries, tally, gate, waiter, waitlist, backend, pending, last, save, mail>>

FreshInit == ReadyInit /\ HasBackend

NextFresh ==
    \/ fresh.pc = "none" /\ Mutations
    \/ \E i \in 1..Len(pending) : persistResolved_lib(i)
    \/ \E i \in 1..Len(pending) : persistResolved_p3(i)
    \/ \E i \in 1..Len(pending) : persistRejected_lib(i)
    \/ \E i \in 1..Len(pending) : persistRejected_p3(i)
    \/ freshConstruct
    \/ freshLoaded
    \/ freshRejected_lib
    \/ freshLoadRejected_p3

SpecFresh == FreshInit /\ [][NextFresh]_vars

(***************************************************************************)
(* Delivery.  mail is the send call in progress, or the last one finished: *)
(* the address being served, the loop variable of the retry loop, the      *)
(* transport calls in flight, and what the call has emitted and returned.  *)
(* In a bulk call outcomes, retried, delays, sent and errors are those of  *)
(* the address being served; invoked and count run over the whole call, as *)
(* do rejected (the transport rejected a message) and missed (an attempt   *)
(* found its address absent).                                              *)
(* A step is the synchronous run up to the next await that leaves the      *)
(* event loop: the transport call, the retry timer, the file read.         *)
(***************************************************************************)
Single == {"sendConfirmation", "sendConfirmationFromFile"}

\* the mailOptions handed to transporter.sendMail
mailOptions(email, subject, html) == [to |-> email, subject |-> subject, html |-> html]

MailStart(op, email, retries) ==
    [MailIdle EXCEPT !.op = op, !.email = email, !.retries = retries,
                     !.present = (email \in waitlist), !.body = DefaultBody]

Return(m, res) == [m EXCEPT !.pc = "done", !.res = res]

\* mutant of AddressDone: the bulk loop does not count the success
AddressDone_uncounted(m, ok) ==
    IF m.op = "sendBulkConfirmation"
    THEN [m EXCEPT !.pc = "next"]
    ELSE Return(m, IF ok THEN "true" ELSE "false")

\* mutant of AddressDone: an address whose retry loop returned false counts
AddressDone_countsAll(m, ok) ==
    IF m.op = "sendBulkConfirmation"
    THEN [m EXCEPT !.pc = "next", !.count = @ + 1]
    ELSE Return(m, IF ok THEN "true" ELSE "false")

\* sendConfirmationWithRetry has returned ok for the current address
AddressDone(m, ok) ==
    IF m.op = "sendBulkConfirmation"
    THEN [m EXCEPT !.pc = "next", !.count = @ + (IF ok THEN 1 ELSE 0)]
    ELSE Return(m, IF ok THEN "true" ELSE "false")

\* sendConfirmation has returned true: onEmailSent was emitted
Succeeded(m) ==
    LET m1 == [m EXCEPT !.sent = @ + 1, !.outcomes = Append(@, "sent")]
    IN  IF m.op \in Single THEN Return(m1, "true") ELSE AddressDone(m1, TRUE)

\* mutant of Failed: the loop makes one attempt more than retries + 1
Failed_extra(m, outcome) ==
    LET m1 == [m EXCEPT !.outcomes = Append(@, outcome)]
        m2 == IF rev = "lib"
              THEN [m1 EXCEPT !.retried = Append(@, m.attempt + 1)]
              ELSE m1
    IN  IF m.op \in Single THEN Return(m1, "false")
        ELSE IF m.attempt <= m.retries THEN [m2 EXCEPT !.pc = "delay"]
        ELSE AddressDone(m2, FALSE)

\* sendConfirmation has returned false.  In the retry loop "lib" emits
\* onEmailRetry at once and then waits if an attempt is left; "p3" emits
\* nothing here (it emits after the wait).
Failed(m, outcome) ==
    LET m1 == [m EXCEPT !.outcomes = Append(@, outcome)]
        m2 == IF rev = "lib"
              THEN [m1 EXCEPT !.retried = Append(@, m.attempt + 1)]
              ELSE m1
    IN  IF m.op \in Single THEN Return(m1, "false")
        ELSE IF m.attempt < m.retries THEN [m2 EXCEPT !.pc = "delay"]
        ELSE AddressDone(m2, FALSE)

\* mutant of Rejected: the rejection is not reported
Rejected_silent(m) == Failed([m EXCEPT !.rejected = TRUE], "failed")

\* the transport rejected: handleError, then as any failed attempt
Rejected(m) == Failed([m EXCEPT !.errors = @ + 1, !.rejected = TRUE], "failed")

\* sendConfirmation: the membership test, then the transport call.  For an
\* absent address "lib" only logs, "p3" calls handleError.
Attempt(m) ==
    IF m.email \in waitlist
    THEN [m EXCEPT !.pc = "sending", !.inflight = @ \cup {m.email},
                   !.invoked = @ + 1,
                   !.message = mailOptions(m.email, subjectTemplate(m.email),
                                           replace(m.body, companyName))]
    ELSE Failed([m EXCEPT !.errors = @ + (IF rev = "lib" THEN 0 ELSE 1),
                          !.missed = TRUE], "absent")

MailFree == mail.pc \in {"idle", "done"}

sendConfirmation(email, bodyTemplate) ==
    /\ MailFree
    /\ mail' = Attempt([MailStart("sendConfirmation", email, 0)
                           EXCEPT !.body = bodyTemplate])
    /\ UNCHANGED <<config, now, transporter, queries, tally, gate, waiter, waitlist, backend, pending, last, save, fresh>>

\* "lib": membership test, then await readFile
sendConfirmationFromFile_lib(email) ==
    /\ rev = "lib" /\ MailFree
    /\ mail' = LET m == [MailStart("sendConfirmationFromFile", email, 0)
                            EXCEPT !.body = FileBody]
               IN  IF email \in waitlist THEN [m EXCEPT !.pc = "reading"]
                   ELSE Failed([m EXCEPT !.missed = TRUE], "absent")
    /\ UNCHANGED <<config, now, transporter, queries, tally, gate, waiter, waitlist, backend, pending, last, save, fresh>>

\* "lib": the template is read, sendMail is called without a second test
readResolved_lib ==
    /\ rev = "lib" /\ mail.pc = "reading"
    /\ mail' = [mail EXCEPT !.pc = "sending", !.inflight = @ \cup {mail.email},
                            !.invoked = @ + 1,
                            !.message = mailOptions(mail.email,
                                                    subjectTemplate(mail.email),
                                                    mail.body)]
    /\ UNCHANGED <<config, now, transporter, queries, tally, gate, waiter, waitlist, backend, pending, last, save, fresh>>

\* "p3": await readFile first
sendConfirmationFromFile_p3(email) ==
    /\ rev = "p3" /\ MailFree
    /\ mail' = [MailStart("sendConfirmationFromFile", email, 0)
                   EXCEPT !.pc = "reading", !.body = FileBody]
    /\ UNCHANGED <<config, now, transporter, queries, tally, gate, waiter, waitlist, backend, pending, last, save, fresh>>

\* "p3": the template is compiled, then sendConfirmation is called
readResolved_p3 ==
    /\ rev = "p3" /\ mail.pc = "reading"
    /\ mail' = Attempt(mail)
    /\ UNCHANGED <<config, now, transporter, queries, tally, gate, waiter, waitlist, backend, pending, last, save, fresh>>

\* mutant of readRejected: the failure is not reported
readRejected_silent ==
    /\ mail.pc = "reading"
    /\ mail' = Return(mail, "false")
    /\ UNCHANGED <<config, now, transporter, queries, tally, gate, waiter, waitlist, backend, pending, last, save, fresh>>

\* readFile rejected (or, in "p3", the file is empty): handleError, false
readRejected ==
    /\ mail.pc = "reading"
    /\ mail' = Return([mail EXCEPT !.errors = @ + 1], "false")
    /\ UNCHANGED <<config, now, transporter, queries, tally, gate, waiter, waitlist, backend, pending, last, save, fresh>>

sendConfirmationWithRetry(email, retries) ==
    /\ MailFree
    /\ mail' = Attempt(MailStart("sendConfirmationWithRetry", email, retries))
    /\ UNCHANGED <<config, now, transporter, queries, tally, gate, waiter, waitlist, backend, pending, last, save, fresh>>

\* transporter.sendMail resolved
transportResolved ==
    /\ mail.pc = "sending"
    /\ \E x \in mail.inflight :
           mail' = Succeeded([mail EXCEPT !.inflight = @ \ {x}])
    /\ UNCHANGED <<config, now, transporter, queries, tally, gate, waiter, waitlist, backend, pending, last, save, fresh>>

\* transporter.sendMail rejected
transportRejected ==
    /\ mail.pc = "sending"
    /\ \E x \in mail.inflight :
           mail' = Rejected([mail EXCEPT !.inflight = @ \ {x}])
    /\ UNCHANGED <<config, now, transporter, queries, tally, gate, waiter, waitlist, backend, pending, last, save, fresh>>

\* mutant of delayElapsed: the event carries the loop variable itself
delayElapsed_zeroBased ==
    /\ mail.pc = "delay"
    /\ mail' = Attempt([mail EXCEPT
                   !.delays = @ + 1,
                   !.retried = IF rev = "p3" THEN Append(@, mail.attempt) ELSE @,
                   !.attempt = @ + 1])
    /\ UNCHANGED <<config, now, transporter, queries, tally, gate, waiter, waitlist, backend, pending, last, save, fresh>>

\* mutant of delayElapsed: the loop variable does not advance
delayElapsed_sameAttempt ==
    /\ mail.pc = "delay"
    /\ mail' = Attempt([mail EXCEPT
                   !.delays = (@ + 1) % 2, !.outcomes = <<>>, !.retried = <<>>])
    /\ UNCHANGED <<config, now, transporter, queries, tally, gate, waiter, waitlist, backend, pending, last, save, fresh>>

\* the retry timer fired: "p3" emits onEmailRetry now; the loop variable
\* advances and the next attempt starts
delayElapsed ==
    /\ mail.pc = "delay"
    /\ mail' = Attempt([mail EXCEPT
                   !.delays = @ + 1,
                   !.retried = IF rev = "p3" THEN Append(@, mail.attempt + 1) ELSE @,
                   !.attempt = @ + 1])
    /\ UNCHANGED <<config, now, transporter, queries, tally, gate, waiter, waitlist, backend, pending, last, save, fresh>>

RECURSIVE Orders(_)
\* the iteration orders of a set
Orders(S) ==
    IF S = {} THEN {<<>>}
    ELSE UNION {{<<x>> \o q : q \in Orders(S \ {x})} : x \in S}

\* emit onBulkConfirmationComplete and return successCount
BulkReturn(m) ==
    Return([m EXCEPT !.done = Append(@, [successCount |-> m.count, total |-> m.total])],
           "count")

\* the first attempt for the next address of the snapshot
BulkStep(m) ==
    IF m.queue = <<>> THEN BulkReturn(m)
    ELSE Attempt([m EXCEPT !.email = Head(m.queue), !.queue = Tail(m.queue),
                           !.attempt = 0, !.outcomes = <<>>, !.retried = <<>>,
                           !.delays = 0, !.sent = 0, !.errors = 0])

\* mutant of sendBulkConfirmation: every address is handed to the transport
\* at once
sendBulkConfirmation_parallel(retries) ==
    /\ MailFree
    /\ \E q \in Orders(waitlist) :
           mail' = [MailStart("sendBulkConfirmation", NoArg, retries) EXCEPT
                       !.total = Len(q), !.present = TRUE,
                       !.pc = IF q = <<>> THEN "done" ELSE "sending",
                       !.inflight = waitlist, !.invoked = Len(q),
                       !.email = IF q = <<>> THEN NoArg ELSE Head(q),
                       !.queue = IF q = <<>> THEN <<>> ELSE Tail(q)]
    /\ UNCHANGED <<config, now, transporter, queries, tally, gate, waiter, waitlist, backend, pending, last, save, fresh>>

sendBulkConfirmation(retries) ==
    /\ MailFree
    /\ \E q \in Orders(waitlist) :
           mail' = BulkStep([MailStart("sendBulkConfirmation", NoArg, retries) EXCEPT
                                !.queue = q, !.total = Len(q), !.present = TRUE])
    /\ UNCHANGED <<config, now, transporter, queries, tally, gate, waiter, waitlist, backend, pending, last, save, fresh>>

\* the await of sendConfirmationWithRetry resumes the loop of the bulk call
bulkNext ==
    /\ mail.pc = "next"
    /\ mail' = BulkStep(mail)
    /\ UNCHANGED <<config, now, transporter, queries, tally, gate, waiter, waitlist, backend, pending, last, save, fresh>>

\* a Ready Local instance holding some well-formed addresses
SendInit ==
    /\ ReadyInit
    /\ storage = "local"

\* single sends and the retry loop
NextSend ==
    \/ Mutations
    \/ \E i \in 1..Len(pending) : persistResolved_p3(i)
    \/ \E email \in Valid : sendConfirmation(email, DefaultBody)
    \/ \E email \in Valid : sendConfirmationFromFile_lib(email)
    \/ \E email \in Valid : sendConfirmationFromFile_p3(email)
    \/ readResolved_lib
    \/ readResolved_p3
    \/ readRejected
    \/ \E email \in Valid, retries \in 0..MaxRetries :
           sendConfirmationWithRetry(email, retries)
    \/ transportResolved
    \/ transportRejected
    \/ delayElapsed

SpecSend == SendInit /\ [][NextSend]_vars

\* bulk sends
NextBulk ==
    \/ Mutations
    \/ \E i \in 1..Len(pending) : persistResolved_p3(i)
    \/ \E retries \in 0..MaxBulkRetries : sendBulkConfirmation(retries)
    \/ transportResolved
    \/ transportRejected
    \/ delayElapsed
    \/ bulkNext

SpecBulk == SendInit /\ [][NextBulk]_vars

\* a Ready Local instance to which some well-formed addresses were added
TerminateInit ==
    /\ rev \in Revs
    /\ storage = "local"
    /\ thrower = FALSE
    /\ companyName = Acme
    /\ transporter = "open"
    /\ NoQuery
    /\ tally = NoTally
    /\ initialized = TRUE
    /\ initPc = "ready"
    /\ verifyPc = "ready"
    /\ connected = FALSE
    /\ initFailure = {}
    /\ initLog = ReadyLog
    /\ loaded = FALSE
    /\ waiter = "idle"
    /\ waitlist \in SUBSET Valid
    /\ backend = {}
    /\ pending = <<>>
    /\ last = [n |-> 0, op |-> "none", arg |-> NoArg, ready |-> FALSE,
               pre |-> {}, res |-> "none", evs |-> <<>>, persist |-> "none"]
    /\ save = SaveIdle
    /\ mail = MailIdle
    /\ fresh = FreshNone

\* the retry loop and the bulk loop, while addresses are being removed
NextTerminate ==
    \/ \E email \in Valid : removeEmail_lib(email)
    \/ \E email \in Valid : removeEmail_p3(email)
    \/ \E email \in Valid, retries \in 0..MaxRetries :
           sendConfirmationWithRetry(email, retries)
    \/ \E retries \in 0..MaxBulkRetries : sendBulkConfirmation(retries)
    \/ transportResolved
    \/ transportRejected
    \/ delayElapsed
    \/ bulkNext

\* every transporter.sendMail call is answered, every retry timer fires,
\* and the continuation of an awaited promise is run
SpecTerminate ==
    /\ TerminateInit
    /\ [][NextTerminate]_vars
    /\ WF_vars(transportResolved \/ transportRejected)
    /\ WF_vars(delayElapsed)
    /\ WF_vars(bulkNext)

(***************************************************************************)
(* Construction.  A mail configuration is given by which of its four       *)
(* required fields are present (non-empty, non-zero).  "p3" validates it   *)
(* before it creates anything; "lib" passes the fields to                  *)
(* nodemailer.createTransport as they are.  The constructor is recorded in *)
(* last as a call whose argument is the configuration.                     *)
(***************************************************************************)
MailConfigs == [host : BOOLEAN, port : BOOLEAN, user : BOOLEAN, pass : BOOLEAN]

Complete(mailConfig) ==
    mailConfig.host /\ mailConfig.port /\ mailConfig.user /\ mailConfig.pass

\* no instance yet: nothing is started, the backend holds what it holds
NewInit ==
    /\ rev \in Revs
    /\ storage \in Storages
    /\ thrower = FALSE
    /\ companyName = Acme
    /\ transporter = "open"
    /\ NoQuery
    /\ tally = NoTally
    /\ initialized = FALSE
    /\ initPc = "new"
    /\ verifyPc = "new"
    /\ connected = FALSE
    /\ initFailure = {}
    /\ initLog = <<>>
    /\ loaded = FALSE
    /\ waiter = "idle"
    /\ waitlist = {}
    /\ backend \in (IF storage = "local" THEN {{}} ELSE SUBSET Valid)
    /\ pending = <<>>
    /\ last = [n |-> 0, op |-> "none", arg |-> NoArg, ready |-> FALSE,
               pre |-> {}, res |-> "none", evs |-> <<>>, persist |-> "none"]
    /\ save = SaveIdle
    /\ mail = MailIdle
    /\ fresh = FreshNone

\* "lib": createTransport, transporter.verify and the chain are started
\* whatever the configuration holds
constructor_lib(mailConfig) ==
    /\ rev = "lib" /\ initPc = "new"
    /\ initialized' = (storage = "local")
    /\ initPc' = IF storage = "local" THEN "emitting" ELSE "connecting"
    /\ verifyPc' = "pending"
    /\ last' = Call("constructor", mailConfig, "ok", <<>>, "none")
    /\ UNCHANGED <<config, now, transporter, queries, tally, io, connected, initFailure, initLog, loaded, waiter,
                   waitlist, backend, pending>>

\* "p3": an incomplete configuration throws before the transporter is
\* created and before initialize() is called
constructor_p3(mailConfig) ==
    /\ rev = "p3" /\ initPc = "new"
    /\ IF Complete(mailConfig)
       THEN /\ initPc' = "verifying"
            /\ verifyPc' = "pending"
            /\ last' = Call("constructor", mailConfig, "ok", <<>>, "none")
       ELSE /\ initPc' = "thrown"
            /\ verifyPc' = "new"
            /\ last' = Call("constructor", mailConfig, "throw", <<>>, "none")
    /\ UNCHANGED <<config, now, transporter, queries, tally, io, initialized, connected, initFailure, initLog, loaded,
                   waiter, waitlist, backend, pending>>

NextConstruct ==
    \/ \E mailConfig \in MailConfigs : constructor_lib(mailConfig)
    \/ \E mailConfig \in MailConfigs : constructor_p3(mailConfig)
    \/ verifyReady_lib
    \/ verifyError_lib
    \/ connectResolved_lib
    \/ syncResolved_lib
    \/ loadResolved_lib
    \/ connectRejected_lib
    \/ loadRejected_lib
    \/ emitInitialized_lib
    \/ verifyResolved_p3
    \/ verifyRejected_p3
    \/ connectResolved_p3
    \/ syncResolved_p3
    \/ connectRejected_p3
    \/ loadResolved_p3
    \/ loadRejected_p3

SpecConstruct == NewInit /\ [][NextConstruct]_vars

(***************************************************************************)
(* A Ready instance on which a throwing subscriber of onEmailAdded is      *)
(* registered before a second, well-behaved one.                           *)
(***************************************************************************)
SubscriberInit == ReadyState /\ thrower = TRUE /\ companyName = Acme

NextSubscriber ==
    \/ Mutations
    \/ \E i \in 1..Len(pending) : persistResolved_lib(i)
    \/ \E i \in 1..Len(pending) : persistResolved_p3(i)
    \/ \E i \in 1..Len(pending) : persistRejected_lib(i)
    \/ \E i \in 1..Len(pending) : persistRejected_p3(i)

SpecSubscriber == SubscriberInit /\ [][NextSubscriber]_vars

(***************************************************************************)
(* close().  lib disconnects the backend in use (for db only when the      *)
(* connection's readyState is not 0) and closes the transporter; p3        *)
(* disconnects the backend and emits onClose, and leaves the transporter   *)
(* alone.  Neither touches this.waitlist or the stored records.  The       *)
(* drivers' disconnect and close resolve on a connection already closed.   *)
(***************************************************************************)
\* the constructor has returned an instance
Constructed == initPc \notin {"new", "thrown"}

\* mutant of close_lib: the instance counts as uninitialized again
close_lib_resets ==
    /\ rev = "lib" /\ Constructed
    /\ connected' = FALSE
    /\ transporter' = "closed"
    /\ initialized' = FALSE
    /\ last' = Call("close", NoArg, "void", <<>>, "none")
    /\ pending' = Untag(pending)
    /\ UNCHANGED <<config, now, queries, tally, io, initPc, verifyPc, initFailure,
                   initLog, loaded, waiter, waitlist, backend>>

close_lib ==
    /\ rev = "lib" /\ Constructed
    /\ connected' = FALSE
    /\ transporter' = "closed"
    /\ last' = Call("close", NoArg, "void", <<>>, "none")
    /\ pending' = Untag(pending)
    /\ UNCHANGED <<config, now, queries, tally, io, initialized, initPc, verifyPc, initFailure,
                   initLog, loaded, waiter, waitlist, backend>>

close_p3 ==
    /\ rev = "p3" /\ Constructed
    /\ connected' = FALSE
    /\ last' = Call("close", NoArg, "void", <<Ev("onClose", NoArg)>>, "none")
    /\ pending' = Untag(pending)
    /\ UNCHANGED <<config, now, transporter, queries, tally, io, initialized, initPc, verifyPc, initFailure,
                   initLog, loaded, waiter, waitlist, backend>>

NextClose ==
    \/ Mutations
    \/ \E i \in 1..Len(pending) : persistResolved_lib(i)
    \/ \E i \in 1..Len(pending) : persistResolved_p3(i)
    \/ close_lib
    \/ close_p3

SpecClose == ReadyInit /\ [][NextClose]_vars

(***************************************************************************)
(* findEmailsByPattern and countWaitlistByDate on a Ready instance whose   *)
(* set and stored records agree.  Both only read; the failure of a backend *)
(* query (the catch branch: onError, and [] or 0) is left out.             *)
(***************************************************************************)
QueryInit ==
    /\ rev \in Revs
    /\ storage \in Storages
    /\ thrower = FALSE
    /\ companyName = Acme
    /\ transporter = "open"
    /\ initialized = TRUE
    /\ initPc = "ready"
    /\ verifyPc = "ready"
    /\ connected = HasBackend
    /\ initFailure = {}
    /\ initLog = ReadyLog
    /\ loaded = HasBackend
    /\ waiter = "idle"
    /\ waitlist \in SUBSET Valid
    /\ backend = IF storage = "local" THEN {} ELSE waitlist
    /\ now = MaxTime
    /\ createdAt \in [Valid -> Times]
    /\ acceptedAt = createdAt
    /\ query = QueryIdle
    /\ tally = NoTally
    /\ pending = <<>>
    /\ last = [n |-> 0, op |-> "none", arg |-> NoArg, ready |-> FALSE,
               pre |-> {}, res |-> "none", evs |-> <<>>, persist |-> "none"]
    /\ save = SaveIdle
    /\ mail = MailIdle
    /\ fresh = FreshNone

Answered == <<config, now, transporter, createdAt, acceptedAt, tally, io, gate, waiter, waitlist, backend,
              pending, last>>

findEmailsByPattern(pattern) ==
    /\ \E ignoreCase \in BOOLEAN :
           query' = [op |-> "findEmailsByPattern", arg |-> pattern, count |-> 0,
                     found |->
                         IF storage = "local"
                         THEN {email \in waitlist : Matches(email, pattern)}
                         ELSE IF storage = "db"
                         THEN {email \in backend : RegexMatches(email, pattern)}
                         ELSE {email \in backend :
                                  LikeMatches(email, pattern, ignoreCase)}]
    /\ UNCHANGED Answered

countWaitlistByDate(startDate, endDate) ==
    /\ query' = [op |-> "countWaitlistByDate", arg |-> <<startDate, endDate>>,
                 count |-> IF storage = "local" THEN Cardinality(waitlist)
                           ELSE IF storage = "db"
                           THEN countDocuments(startDate, endDate)
                           ELSE count(startDate, endDate),
                 found |-> {}]
    /\ UNCHANGED Answered

NextQuery ==
    \/ \E pattern \in Patterns : findEmailsByPattern(pattern)
    \/ \E startDate \in Dates : \E endDate \in Dates :
           countWaitlistByDate(startDate, endDate)

SpecQuery == QueryInit /\ [][NextQuery]_vars

(***************************************************************************)
(* sendConfirmation with the caller's body template and the configured     *)
(* company name, on a Ready Local instance.                                *)
(***************************************************************************)
MessageInit ==
    /\ ReadyState /\ thrower = FALSE
    /\ storage = "local"
    /\ companyName \in Companies

NextMessage ==
    \/ Mutations
    \/ \E i \in 1..Len(pending) : persistResolved_p3(i)
    \/ \E email \in Valid, bodyTemplate \in Bodies : sendConfirmation(email, bodyTemplate)
    \/ transportResolved
    \/ transportRejected

SpecMessage == MessageInit /\ [][NextMessage]_vars

(***************************************************************************)
(* Overlapping calls on a Ready instance: a burst of addEmail(x) for an    *)
(* address that was absent, a burst of removeEmail(x) for one that was     *)
(* present, each call made while earlier ones may still await the backend. *)
(***************************************************************************)
MaxCalls == 3

OverlapInit ==
    /\ rev \in Revs
    /\ storage \in Storages
    /\ thrower = FALSE
    /\ companyName = Acme
    /\ transporter = "open"
    /\ initialized = TRUE
    /\ initPc = "ready"
    /\ verifyPc = "ready"
    /\ connected = HasBackend
    /\ initFailure = {}
    /\ initLog = ReadyLog
    /\ loaded = HasBackend
    /\ waiter = "idle"
    /\ waitlist \in SUBSET Valid
    /\ backend = IF storage = "local" THEN {} ELSE waitlist
    /\ NoQuery
    /\ tally = [NoTally EXCEPT !.on = TRUE]
    /\ pending = <<>>
    /\ last = [n |-> 0, op |-> "none", arg |-> NoArg, ready |-> FALSE,
               pre |-> {}, res |-> "none", evs |-> <<>>, persist |-> "none"]
    /\ save = SaveIdle
    /\ mail = MailIdle
    /\ fresh = FreshNone

\* x was absent at the start and only addEmail(x) has been called
Adding(x) ==
    /\ tally.calls["removeEmail"][x] = 0
    /\ x \notin waitlist \/ tally.calls["addEmail"][x] > 0
    /\ tally.calls["addEmail"][x] < MaxCalls

\* x was present at the start and only removeEmail(x) has been called
Removing(x) ==
    /\ tally.calls["addEmail"][x] = 0
    /\ x \in waitlist \/ tally.calls["removeEmail"][x] > 0
    /\ tally.calls["removeEmail"][x] < MaxCalls

NextOverlap ==
    \/ \E email \in Valid : Adding(email) /\ addEmail_lib(email)
    \/ \E email \in Valid : Adding(email) /\ addEmail_p3(email)
    \/ \E email \in Valid : Removing(email) /\ removeEmail_lib(email)
    \/ \E email \in Valid : Removing(email) /\ removeEmail_p3(email)
    \/ \E i \in 1..Len(pending) : persistResolved_lib(i)
    \/ \E i \in 1..Len(pending) : persistResolved_p3(i)
    \/ \E i \in 1..Len(pending) : persistRejected_lib(i)
    \/ \E i \in 1..Len(pending) : persistRejected_p3(i)

SpecOverlap == OverlapInit /\ [][NextOverlap]_vars

(***************************************************************************)
(* Timestamps: a Ready instance with a backend while time passes, with     *)
(* additions and saves, none of them rejected by the backend.              *)
(***************************************************************************)
StampInit == ReadyInit /\ HasBackend

NextStamp ==
    \/ tick
    \/ \E email \in Valid : addEmail_lib(email)
    \/ \E email \in Valid : addEmail_p3(email)
    \/ \E i \in 1..Len(pending) : persistResolved_lib(i)
    \/ \E i \in 1..Len(pending) : persistResolved_p3(i)
    \/ SaveSteps

SpecStamp == StampInit /\ [][NextStamp]_vars

(***************************************************************************)
(* The life of an instance: construction, the initialization chain, calls  *)
(* of addEmail whose backend call may fail, and close at any time.         *)
(***************************************************************************)
NextLifecycle ==
    \/ NextConstruct
    \/ Constructed /\ addEmail_lib(a1)
    \/ Constructed /\ addEmail_p3(a1)
    \/ \E i \in 1..Len(pending) : persistResolved_lib(i)
    \/ \E i \in 1..Len(pending) : persistResolved_p3(i)
    \/ \E i \in 1..Len(pending) : persistRejected_lib(i)
    \/ \E i \in 1..Len(pending) : persistRejected_p3(i)
    \/ close_lib
    \/ close_p3

SpecLifecycle == NewInit /\ [][NextLifecycle]_vars

(***************************************************************************)
(* Properties.                                                             *)
(***************************************************************************)
\* the step is the synchronous part of a new public call
NewCall == last'.n # last.n

Failure(op) == IF op = "clearWaitlist" THEN "void" ELSE "false"

ErrorReported(evs) == \E i \in 1..Len(evs) : evs[i].name = "onError" /\ evs[i].cause # "none"

\* C1: a public operation called while isInitialized() is false returns its
\* failure value, leaves the in-memory set and the backend unchanged and
\* issues no backend call (nothing is queued).
C1_NotInitializedFailsFast ==
    [][(NewCall /\ ~initialized) =>
           /\ last'.res = Failure(last'.op)
           /\ last'.persist = "none"
           /\ waitlist' = waitlist
           /\ backend' = backend
           /\ Len(pending') = Len(pending)]_vars

\* C2: once the initialization state machine has completed, in Ready or in
\* Failed, no caller of waitForInitialization is still suspended.
C2_WaitReturnsOnCompletion ==
    initPc \in {"ready", "failed"} => waiter # "waiting"

\* C3: isInitialized() is true, or the initialized event has fired, only after
\* the transport was verified and, for a Document or Relational backend, the
\* connection was established and the stored records were loaded.
C3_ReadyOnlyAfterVerifyConnectLoad ==
    (initialized \/ Count(initLog, "onInitialized") > 0) =>
        /\ verifyPc = "ready"
        /\ HasBackend => (connected /\ loaded)

\* C4: once transport verification, connection or hydration has failed, an
\* error event carrying the cause has been emitted, isInitialized() is false,
\* the initialized event has not fired and the chain has stopped.
C4_FailedIsTerminal ==
    initFailure # {} =>
        /\ ~initialized
        /\ Count(initLog, "onInitialized") = 0
        /\ verifyPc = "error" \/ \E i \in 1..Len(initLog) : initLog[i].cause # "none"
        /\ initPc = "failed"

\* the last call was addEmail of a valid absent address on a Ready instance,
\* and it has completed
AddedFresh ==
    /\ last.op = "addEmail" /\ last.ready
    /\ validateEmailFormat(last.arg) /\ last.arg \notin last.pre
    /\ last.res # "pending"

\* C5: addEmail(x) of a valid absent x on a Ready instance returns true; the
\* same call made next returns false, leaves the set unchanged, emits no
\* onEmailAdded and issues no backend create.
C5_AddTwiceTrueThenFalse ==
    [][/\ AddedFresh' => last'.res = "true"
       /\ (AddedFresh /\ NewCall /\ last'.op = "addEmail" /\ last'.arg = last.arg) =>
              /\ last'.res = "false"
              /\ waitlist' = waitlist
              /\ Count(last'.evs, "onEmailAdded") = 0
              /\ last'.persist = "none"
              /\ Len(pending') = Len(pending)]_vars

\* C6: on a Ready instance addEmail validates before it looks for a duplicate:
\* an invalid x gives false and exactly one onValidationError and nothing
\* else, a valid x already in the set gives false and exactly one
\* onDuplicateEmail(x) and nothing else; set and backend are unchanged.
C6_ValidateBeforeDuplicate ==
    [][(NewCall /\ initialized /\ last'.op = "addEmail"
          /\ (~validateEmailFormat(last'.arg) \/ last'.arg \in waitlist)) =>
           /\ last'.res = "false"
           /\ IF validateEmailFormat(last'.arg)
              THEN last'.evs = <<Ev("onDuplicateEmail", last'.arg)>>
              ELSE Len(last'.evs) = 1 /\ last'.evs[1].name = "onValidationError"
           /\ last'.persist = "none"
           /\ Len(pending') = Len(pending)
           /\ waitlist' = waitlist
           /\ backend' = backend]_vars

\* an invalid address that hydration put into the set was offered to addEmail
C6_Witness ==
    /\ last.op = "addEmail" /\ last.ready
    /\ ~validateEmailFormat(last.arg)
    /\ last.arg \in last.pre
    /\ last.res = "false"

\* C7: removeEmail(x) of an address that is not in the set returns false,
\* emits nothing, issues no backend delete and leaves the set unchanged.
C7_RemoveAbsent ==
    [][(NewCall /\ last'.op = "removeEmail" /\ last'.arg \notin waitlist) =>
           /\ last'.res = "false"
           /\ last'.evs = <<>>
           /\ last'.persist = "none"
           /\ Len(pending') = Len(pending)
           /\ waitlist' = waitlist
           /\ backend' = backend]_vars

C7_Witness ==
    /\ last.op = "removeEmail" /\ last.ready
    /\ last.arg \notin last.pre
    /\ last.pre # {}
    /\ last.res = "false"

\* C8: addEmail(x) of a valid absent x on a Ready instance returns true, emits
\* onEmailAdded(x) exactly once and makes x a member; removeEmail(x) called
\* next returns true, emits onEmailRemoved(x) exactly once and restores the
\* set to what it was before the addEmail.
C8_AddThenRemoveRestores ==
    [][/\ AddedFresh' =>
              /\ last'.res = "true"
              /\ Count(last'.evs, "onEmailAdded") = 1
              /\ last'.arg \in waitlist'
       /\ (AddedFresh /\ NewCall /\ last'.op = "removeEmail" /\ last'.arg = last.arg) =>
              waitlist' = last.pre
       /\ (last'.op = "removeEmail" /\ last'.ready /\ last'.arg \in last'.pre
             /\ last'.res # "pending") =>
              /\ last'.res = "true"
              /\ Count(last'.evs, "onEmailRemoved") = 1]_vars

\* the step is the rejection of the backend call the last call issued
PersistFails == last.persist = "inflight" /\ last'.persist = "failed"

\* C9: when the create issued by addEmail(x) or the delete issued by
\* removeEmail(x) fails, an onError event carrying the cause is emitted and
\* the failure leaves the in-memory set as it is: x is still in the set after
\* the failed create and, for a call on a Ready instance, still out of it
\* after the failed delete.
C9_PersistFailureKeepsMemory ==
    [][(PersistFails /\ last.op \in {"addEmail", "removeEmail"}) =>
           /\ waitlist' = waitlist
           /\ Len(last'.evs) = Len(last.evs) + 1
           /\ last'.evs[Len(last'.evs)].name = "onError"
           /\ last'.evs[Len(last'.evs)].cause # "none"
           /\ last.op = "addEmail" => last.arg \in waitlist'
           /\ (last.op = "removeEmail" /\ last.ready) => last.arg \notin waitlist']_vars

C9_Witness ==
    /\ last.op = "addEmail" /\ last.ready
    /\ last.persist = "failed"
    /\ ErrorReported(last.evs)
    /\ last.arg \in waitlist

\* C10: no public call throws or rejects, and a call whose backend call
\* failed has emitted an event carrying the cause.
C10_NeverThrows ==
    /\ last.res # "throw"
    /\ last.persist = "failed" => ErrorReported(last.evs)


\* C11: on a Ready instance with a Document or Relational backend, once
\* every backend call issued by add, remove, clear and saveWaitlist has
\* completed without error, the backend holds exactly the in-memory set.
C11_BackendEqualsMemory ==
    (HasBackend /\ pending = <<>> /\ save.pc = "idle") => backend = waitlist

\* C12: Document or Relational backend: after addEmail(x) has returned true
\* on one instance, a fresh instance on the same backend that completes
\* waitForInitialization() has x in getWaitlist().
C12_FreshInstanceSeesAdded ==
    fresh.pc = "ready" => fresh.added \in fresh.waitlist

\* C13: the transport is contacted only for an address that is in the
\* in-memory set at the moment of the attempt: every transport call a send
\* operation starts is for a member of the waitlist.
C13_TransportOnlyForMembers ==
    [][\A x \in mail'.inflight \ mail.inflight : x \in waitlist]_vars

\* C14: sendConfirmation to an address in the waitlist returns true exactly
\* when the transport accepted the message: on success onEmailSent is
\* emitted exactly once and no error event; on transport failure it
\* returns false with exactly one error event and no onEmailSent.
C14_SendConfirmationOutcome ==
    (mail.op = "sendConfirmation" /\ mail.pc = "done" /\ mail.present) =>
        /\ mail.invoked = 1
        /\ mail.res \in {"true", "false"}
        /\ mail.res = "true" <=> mail.outcomes = <<"sent">>
        /\ mail.res = "true" => mail.sent = 1 /\ mail.errors = 0
        /\ mail.res = "false" =>
               mail.outcomes = <<"failed">> /\ mail.sent = 0 /\ mail.errors = 1

\* a sendConfirmation to a member of the waitlist that the transport rejected
C14_Witness ==
    /\ mail.op = "sendConfirmation" /\ mail.pc = "done" /\ mail.present
    /\ mail.res = "false" /\ mail.errors = 1

\* C15: sendConfirmationWithRetry with maxRetries = n makes at least one and
\* at most n+1 send attempts, stops at the first attempt that succeeds and
\* returns true, and returns false only after n+1 attempts have all failed.
C15_RetryAttempts ==
    mail.op = "sendConfirmationWithRetry" =>
        LET k == Len(mail.outcomes)
        IN  /\ k <= mail.retries + 1
            /\ \A i \in 1..k : mail.outcomes[i] = "sent" =>
                   i = k /\ mail.pc = "done" /\ mail.res = "true"
            /\ mail.pc = "done" =>
                   /\ k >= 1
                   /\ mail.res = "true" => mail.outcomes[k] = "sent"
                   /\ mail.res = "false" =>
                          /\ k = mail.retries + 1
                          /\ \A i \in 1..k : mail.outcomes[i] # "sent"

\* a retry call that gave up after more than one failed attempt
C15_Witness ==
    /\ mail.op = "sendConfirmationWithRetry" /\ mail.pc = "done"
    /\ mail.res = "false" /\ mail.retries >= 1
    /\ Len(mail.outcomes) = mail.retries + 1
    /\ \A i \in 1..Len(mail.outcomes) : mail.outcomes[i] = "failed"

\* C16: during sendConfirmationWithRetry an onEmailRetry event is emitted,
\* and the delay taken, only between a failed attempt and the next attempt,
\* never after the final one: a call that made k attempts has emitted k-1
\* events and taken k-1 delays when it returns (n of each when all n+1
\* attempts fail).  Checked for calls whose attempts all reached the
\* transport.
C16_RetryEventsBetweenAttempts ==
    (/\ mail.op = "sendConfirmationWithRetry"
     /\ \A i \in 1..Len(mail.outcomes) : mail.outcomes[i] # "absent") =>
        /\ mail.delays <= Len(mail.outcomes)
        /\ Len(mail.retried) <= Len(mail.outcomes)
        /\ mail.pc = "done" =>
               /\ mail.delays = Len(mail.outcomes) - 1
               /\ Len(mail.retried) = Len(mail.outcomes) - 1

\* C17: if the transport fails the first k attempts (k <= maxRetries) and
\* then succeeds, sendConfirmationWithRetry returns true, the transport was
\* invoked exactly k+1 times, and exactly k onEmailRetry events were
\* emitted, carrying the attempt numbers 1, 2, ..., k in that order.
C17_FailThenSucceed ==
    LET k == Len(mail.outcomes) - 1
    IN  (/\ mail.op = "sendConfirmationWithRetry" /\ mail.pc = "done"
         /\ k >= 0
         /\ mail.outcomes[k + 1] = "sent"
         /\ \A i \in 1..k : mail.outcomes[i] = "failed") =>
            /\ mail.res = "true"
            /\ mail.invoked = k + 1
            /\ mail.retried = [i \in 1..k |-> i]

\* the transport failed twice and then accepted the message
C17_Witness ==
    /\ mail.op = "sendConfirmationWithRetry" /\ mail.pc = "done"
    /\ mail.outcomes = <<"failed", "failed", "sent">>

\* a step of a running sendBulkConfirmation call, or the step that starts one
BulkStarts == MailFree /\ mail' # mail /\ mail'.op = "sendBulkConfirmation"

BulkRuns == ~MailFree /\ mail.op = "sendBulkConfirmation" /\ mail' # mail

\* the count is the number of addresses whose retry loop returned true, the
\* completion event is emitted once, at the return, after the last address,
\* with the returned count and the size of the waitlist at the call
BulkCounts ==
    /\ BulkStarts => mail'.total = Cardinality(waitlist)
    /\ BulkRuns =>
           /\ mail'.op = mail.op /\ mail'.total = mail.total
           /\ mail'.count = mail.count + (IF mail'.sent > mail.sent THEN 1 ELSE 0)
    /\ (BulkStarts \/ BulkRuns) =>
           /\ Len(mail'.done) = (IF mail'.pc = "done" THEN 1 ELSE 0)
           /\ mail'.pc = "done" =>
                  /\ mail'.queue = <<>>
                  /\ mail'.res = "count"
                  /\ mail'.done[1] = [successCount |-> mail'.count, total |-> mail'.total]

\* C18 as stated: sendBulkConfirmation returns the number of addresses whose
\* retry loop returned true and emits onBulkConfirmationComplete once, after
\* the last address, with that count and the size of the waitlist at the
\* call; with a transport that always succeeds and N addresses it returns N
\* after exactly N transport invocations.
C18_BulkReturnsAll ==
    [][/\ BulkCounts
       /\ (BulkRuns /\ mail'.pc = "done" /\ ~mail'.rejected) =>
              mail'.count = mail'.total /\ mail'.invoked = mail'.total]_vars

\* C18, amended: the same, where the last sentence holds when no address of
\* the snapshot is missing from the waitlist when its turn comes.
C18_BulkReturnsAllPresent ==
    [][/\ BulkCounts
       /\ (BulkRuns /\ mail'.pc = "done" /\ ~mail'.rejected /\ ~mail'.missed) =>
              mail'.count = mail'.total /\ mail'.invoked = mail'.total]_vars

\* a bulk call over two addresses has returned 2 after the transport
\* accepted both messages
C18_Witness ==
    /\ mail.op = "sendBulkConfirmation" /\ mail.pc = "done"
    /\ ~mail.rejected /\ ~mail.missed
    /\ mail.total = 2 /\ mail.count = 2 /\ mail.invoked = 2

\* C19: within one sendBulkConfirmation call the addresses are processed
\* one after another: at most one transport send of the call is in flight,
\* and the first attempt for the next address starts only after the retry
\* loop of the previous address, with its retries and delays, has returned.
C19_BulkSequential ==
    [][mail'.op = "sendBulkConfirmation" =>
          /\ Cardinality(mail'.inflight) <= 1
          /\ (BulkRuns /\ mail'.email # mail.email) =>
                 /\ mail.pc = "next"
                 /\ mail.inflight = {}
                 /\ mail'.attempt = 0]_vars

\* the second address of a bulk call is with the transport after the first
\* address needed a retry
C19_Witness ==
    /\ mail.op = "sendBulkConfirmation" /\ mail.pc = "sending"
    /\ mail.total = 2 /\ mail.queue = <<>>
    /\ mail.invoked >= 3
    /\ Cardinality(mail.inflight) = 1

\* the step is the return of a saveWaitlist call with true
SaveReturnsTrue == save.pc # "idle" /\ save'.pc = "idle" /\ save'.res = "true"

\* C20 as stated: when saveWaitlist() returns true on a Document or
\* Relational backend, the backend holds exactly the addresses that were in
\* the in-memory set when saveWaitlist was called, and onWaitlistSaved has
\* been emitted with that list.
C20_SaveWritesSnapshot ==
    [][SaveReturnsTrue =>
          /\ backend' = save.emails
          /\ save'.saved = <<save.emails>>]_vars

\* C20, amended: when saveWaitlist() returns true the backend holds every
\* address of that set and onWaitlistSaved has been emitted with that list;
\* it holds exactly those addresses when no other backend call of the
\* instance was in flight during the call: none was pending when it was
\* called and no other operation was called before it returned.
C20_SaveWritesSnapshotAlone ==
    [][SaveReturnsTrue =>
          /\ save.emails \subseteq backend'
          /\ save'.saved = <<save.emails>>
          /\ (save.quiet /\ SaveTracked) => backend' = save.emails]_vars

\* a saveWaitlist call that ran alone has returned true for a non-empty set
C20_Witness ==
    /\ HasBackend /\ save.pc = "idle" /\ save.res = "true"
    /\ save.quiet /\ SaveTracked
    /\ save.emails # {} /\ backend = save.emails
    /\ last.pre = save.emails /\ waitlist = save.emails

\* a step taken while a saveWaitlist call on a Relational backend is running
SqlSaveRuns == storage = "sql" /\ save.pc # "idle"

\* C21: on a Relational backend, if the delete or the bulk insert of
\* saveWaitlist fails, the backend is left as it was before the call, never
\* emptied and never half-written: no step of a failing call writes the
\* backend, and while the call runs alone nothing else does; saveWaitlist
\* returns false and an error event is emitted.
C21_SqlSaveFailureKeepsBackend ==
    [][SqlSaveRuns =>
          /\ (save' # save /\ ~SaveReturnsTrue) => backend' = backend
          /\ (save.quiet /\ SaveTracked /\ ~SaveReturnsTrue) => backend' = backend
          /\ (save'.pc = "idle" /\ ~SaveReturnsTrue) =>
                 /\ save'.res = "false"
                 /\ save'.errors = 1
                 /\ SaveTracked => last'.res = "false" /\ ErrorReported(last'.evs)]_vars

\* a saveWaitlist call on a Relational backend that ran alone has failed and
\* the backend still holds records that differ from the in-memory set
C21_Witness ==
    /\ storage = "sql" /\ save.pc = "idle" /\ save.res = "false"
    /\ save.quiet /\ SaveTracked
    /\ backend # {} /\ backend # save.emails

\* a backend call of removeEmail(x) or of clearWaitlist is in flight
RemovalAsked(x) ==
    \E i \in 1..Len(pending) :
        \/ pending[i].kind = "deleteAll"
        \/ pending[i].kind = "deleteOne" /\ pending[i].email = x

\* C22: a record stored in the backend stays there until removeEmail for
\* its address or clearWaitlist is called: a step takes a record out of the
\* backend only if its address has left the in-memory set or a backend call
\* of removeEmail for it or of clearWaitlist is completing, also when a
\* backend call fails part-way.
C22_RecordsStayUntilRemoved ==
    [][\A x \in backend \ backend' : x \notin waitlist \/ RemovalAsked(x)]_vars

\* the step completes a clearWaitlist call: its synchronous part in "lib"
\* and on Local, the fulfilment of its awaited deleteAll in "p3"
ClearCompletes ==
    /\ last'.op = "clearWaitlist" /\ last'.res = "void"
    /\ NewCall \/ last.res = "pending"

\* C23: clearWaitlist() empties the in-memory set, emits onWaitlistCleared
\* exactly once and issues a backend deleteAll; once the call has completed
\* the in-memory set is empty and a Document or Relational backend holds no
\* record, so countWaitlistByDate() without bounds returns 0.
C23_ClearEmptiesBoth ==
    [][ClearCompletes =>
          /\ waitlist' = {}
          /\ Count(last'.evs, "onWaitlistCleared") = 1
          /\ HasBackend => backend' = {}]_vars

\* C24: constructing an instance with a mail configuration that lacks any
\* of host, port, user or pass throws synchronously, before any event is
\* emitted and before a transport verification or a backend connection is
\* started; nothing is started afterwards either.
C24_IncompleteConfigThrows ==
    (last.op = "constructor" /\ ~Complete(last.arg)) =>
        /\ last.res = "throw"
        /\ last.evs = <<>> /\ initLog = <<>>
        /\ verifyPc = "new"
        /\ initPc = "thrown"
        /\ ~connected /\ ~initialized

\* C25: a subscriber that throws does not keep the remaining subscribers of
\* the event from being invoked and does not corrupt core state: addEmail
\* of a well-formed new address on a Ready instance, unless its backend
\* call fails, still delivers onEmailAdded to every subscriber, inserts the
\* address, issues the backend create and returns true.
C25_ThrowingSubscriberIsolated ==
    (/\ last.op = "addEmail" /\ last.ready
     /\ validateEmailFormat(last.arg) /\ last.arg \notin last.pre
     /\ last.persist # "failed") =>
        /\ last.res \in {"true", "pending"}
        /\ last.arg \in waitlist
        /\ HasBackend => last.persist \in {"inflight", "ok"}
        /\ \A i \in 1..Len(last.evs) : last.evs[i].cause # "subscriber threw"

CloseRuns == NewCall /\ last'.op = "close"

\* C26: close() releases the backend connection and the transport handle,
\* completes without error, and changes neither the in-memory set nor the
\* backend records; a second close() in a row completes the same way and
\* leaves the instance as the first one left it.
C26_CloseReleasesAndIsIdempotent ==
    [][CloseRuns =>
          /\ ~connected' /\ transporter' = "closed"
          /\ last'.res = "void" /\ ~ErrorReported(last'.evs)
          /\ waitlist' = waitlist /\ backend' = backend
          /\ last.op = "close" =>
                 /\ connected' = connected /\ transporter' = transporter
                 /\ initialized' = initialized /\ pending' = pending]_vars

FindRuns == query' # query /\ query'.op = "findEmailsByPattern"
SameLetter(c, d) == c = d \/ <<c, d>> \in CasePairs \/ <<d, c>> \in CasePairs
ContainsIgnoringCase(email, pattern) ==
    \E i \in 0..(Len(email) - Len(pattern)) :
        \A k \in 1..Len(pattern) : SameLetter(email[i + k], pattern[k])

\* C27: on a Local backend findEmailsByPattern(p) returns exactly the
\* addresses of the in-memory set that contain p as a substring, letters
\* compared without regard to case, and leaves the set as it was.
C27_LocalFindIsContainment ==
    [][(FindRuns /\ storage = "local") =>
          /\ query'.found = {x \in waitlist : ContainsIgnoringCase(x, query'.arg)}
          /\ waitlist' = waitlist]_vars

C27_Witness ==
    /\ storage = "local" /\ query.op = "findEmailsByPattern"
    /\ query.arg = <<"b">> /\ waitlist = {a1, a2} /\ query.found = {a2}

CountRuns == query' # query /\ query'.op = "countWaitlistByDate"
Within(t, bounds) ==
    /\ bounds[1] # {} => \E d \in bounds[1] : d <= t
    /\ bounds[2] # {} => \E d \in bounds[2] : t <= d

RECURSIVE Substituted(_, _)
Substituted(text, name) ==
    IF text = <<>> THEN <<>>
    ELSE (IF Head(text) = Token THEN name ELSE <<Head(text)>>)
         \o Substituted(Tail(text), name)

\* C29: for an address in the waitlist sendConfirmation hands the
\* transport exactly one message: its recipient is that address, its
\* subject is subjectTemplate(address), and its body is
\* bodyTemplate(address) in which every [Company Name] has been replaced
\* by the configured company name.
C29_MessageContent ==
    (mail.op = "sendConfirmation" /\ mail.present) =>
        /\ mail.invoked = 1
        /\ mail.message.to = mail.email
        /\ mail.message.subject = subjectTemplate(mail.email)
        /\ mail.message.html = Substituted(mail.body, companyName)

ReadFails == mail.pc = "reading" /\ mail'.pc = "done" /\ ~mail'.missed
AfterReadFailure ==
    /\ mail.op = "sendConfirmationFromFile" /\ mail.present
    /\ mail.pc = "done" /\ mail.invoked = 0 /\ ~mail.missed

\* C30: sendConfirmationFromFile for an address in the waitlist whose
\* template cannot be read returns false and emits one onError, without a
\* call of the transport and without onEmailSent; the next sendConfirmation
\* for an address in the waitlist reaches the transport as usual.
C30_TemplateFailureIsLocal ==
    [][/\ (ReadFails /\ mail.present) =>
              /\ mail'.res = "false" /\ mail'.errors = 1
              /\ mail'.invoked = 0 /\ mail'.inflight = {} /\ mail'.sent = 0
       /\ (AfterReadFailure /\ mail'.op = "sendConfirmation"
              /\ mail'.email \in waitlist) =>
              /\ mail'.pc = "sending" /\ mail'.invoked = 1
              /\ mail'.inflight = {mail'.email} /\ mail'.errors = 0]_vars

C30_Witness ==
    /\ AfterReadFailure /\ mail.res = "false" /\ mail.errors = 1
    /\ mail.email \in waitlist

\* every call has returned and no awaited backend call was rejected
Settled == pending = <<>> /\ ~tally.failed

C32_RecordsKeepAcceptanceTime ==
    HasBackend => \A x \in backend \cap Valid : createdAt[x] = acceptedAt[x]

\* C33: every address in the in-memory set has passed format validation,
\* in every reachable state, the state right after hydration included.
C33_SetHoldsValidatedAddresses ==
    \A x \in waitlist : validateEmailFormat(x)

\* C34: on a Document or Relational backend whose records agree with the
\* in-memory set, findEmailsByPattern(p) returns the addresses of the set
\* that contain p without regard to case: the answer a Local backend gives
\* for the same set and pattern.
C34_BackendFindAgreesWithLocal ==
    [][(FindRuns /\ HasBackend /\ backend = waitlist) =>
          query'.found = {x \in waitlist : ContainsIgnoringCase(x, query'.arg)}]_vars

\* C35: onInitialized is emitted at most once per instance, the flag
\* behind isInitialized() is set when it is emitted, and once the flag is
\* set no step (close and a failed backend call included) clears it.
C35_InitializedOnceAndForever ==
    [][/\ Count(initLog', "onInitialized") <= 1
       /\ Count(initLog', "onInitialized") > Count(initLog, "onInitialized")
              => initialized'
       /\ initialized => initialized']_vars

C35_Witness ==
    /\ initialized /\ HasBackend /\ Count(initLog, "onInitialized") = 1
    /\ last.op = "close" /\ ~connected

\* the addresses a bulk call has yet to finish: the current one and the queue
Snapshot(m) ==
    {m.queue[i] : i \in 1..Len(m.queue)} \cup (IF m.email = NoArg THEN {} ELSE {m.email})

\* C36: sendBulkConfirmation works on the addresses that were in the set
\* when it was called: no other address is handed to the transport by the
\* call, total stays the size of that snapshot, an address that is absent
\* when its attempt is made is not handed over and adds nothing to
\* successCount, and every onBulkConfirmationComplete has
\* 0 <= successCount <= total.
C36_BulkWorksOnSnapshot ==
    [][/\ BulkStarts =>
              /\ Snapshot(mail') = waitlist
              /\ mail'.total = Cardinality(waitlist)
       /\ BulkRuns =>
              /\ Snapshot(mail') \subseteq Snapshot(mail)
              /\ mail'.total = mail.total
              /\ \A x \in mail'.inflight \ mail.inflight :
                     x \in Snapshot(mail) /\ x \in waitlist
              /\ mail'.count >= mail.count
              /\ mail'.count > mail.count =>
                     /\ mail'.count = mail.count + 1
                     /\ mail.pc = "sending" /\ mail.inflight = {mail.email}
       /\ (BulkStarts \/ BulkRuns) =>
              \A i \in 1..Len(mail'.done) :
                  /\ 0 <= mail'.done[i].successCount
                  /\ mail'.done[i].successCount <= mail'.done[i].total]_vars

\* a bulk call over two addresses, one of them removed before its turn,
\* has reported one success out of two
C36_Witness ==
    /\ mail.op = "sendBulkConfirmation" /\ mail.pc = "done" /\ mail.missed
    /\ mail.done = <<[successCount |-> 1, total |-> 2]>>
    /\ Cardinality(waitlist) = 1

\* C36 as stated: an address removed while the bulk call runs is in no
\* case counted, so a call that completes over an emptied set reports
\* successCount 0
C36_RemovedNeverCounted ==
    [][(BulkRuns /\ Len(mail'.done) > Len(mail.done) /\ waitlist = {})
           => mail'.count = 0]_vars

\* the attempts of the address being served that the transport rejected
TransportFailures ==
    Cardinality({i \in 1..Len(mail.outcomes) : mail.outcomes[i] = "failed"})

\* C37: onEmailRetry is emitted, and a retry delay taken, only after an
\* attempt that contacted the transport and failed;
\* sendConfirmationWithRetry for an address that is not in the set returns
\* false at once, with no onEmailRetry and no delay.
C37_RetryOnlyAfterTransportFailure ==
    /\ mail.op \in {"sendConfirmationWithRetry", "sendBulkConfirmation"} =>
           /\ Len(mail.retried) <= TransportFailures
           /\ mail.delays + (IF mail.pc = "delay" THEN 1 ELSE 0) <= TransportFailures
    /\ (mail.op = "sendConfirmationWithRetry" /\ ~mail.present) =>
           /\ mail.pc = "done" /\ mail.res = "false"
           /\ mail.retried = <<>> /\ mail.delays = 0

\* the saveWaitlist call in progress returns false
SaveReturnsFalse == save.pc # "idle" /\ save'.pc = "idle" /\ save'.res = "false"

\* C38: onWaitlistSaved is emitted only by a saveWaitlist call that returns
\* true and whose backend write has been committed; a saveWaitlist call
\* that returns false emits onError and no onWaitlistSaved.
C38_SavedOnlyAfterCommit ==
    [][/\ Len(save'.saved) > Len(save.saved) => SaveReturnsTrue
       /\ SaveReturnsFalse =>
              /\ save'.saved = <<>>
              /\ save'.errors = save.errors + 1]_vars

\* a retry call or a bulk call is in progress
SendRuns ==
    /\ mail.op \in {"sendConfirmationWithRetry", "sendBulkConfirmation"}
    /\ mail.pc \notin {"idle", "done"}

\* the call has returned, a bulk call after emitting
\* onBulkConfirmationComplete
SendReturned ==
    /\ mail.op \in {"sendConfirmationWithRetry", "sendBulkConfirmation"}
    /\ mail.pc = "done"
    /\ mail.op = "sendBulkConfirmation" => Len(mail.done) = 1

\* C39: for any finite maxRetries and any finite set,
\* sendConfirmationWithRetry and sendBulkConfirmation terminate when every
\* transport call is answered and every retry delay elapses;
\* onBulkConfirmationComplete is then emitted, also when every send fails.
C39_SendLoopsTerminate == SendRuns ~> SendReturned

\* a bulk call over two addresses has completed although the transport
\* rejected every message, each address after all its retries
C39_Witness ==
    /\ mail.op = "sendBulkConfirmation" /\ mail.pc = "done"
    /\ mail.retries = MaxBulkRetries
    /\ mail.done = <<[successCount |-> 0, total |-> 2]>>
    /\ mail.invoked = 2 * (MaxBulkRetries + 1)

====
